---- MODULE Spec2Model ----
(***************************************************************************)
(* Model of remix-browser: the ref resolver (selectors/ref.rs), the shared *)
(* console and network logs (tools/javascript.rs, tools/network.rs) and    *)
(* the script execution engine (tools/script.rs).                          *)
(*                                                                         *)
(* Strings the code inspects character by character (selectors, URLs,      *)
(* filter patterns) are sequences of one-character strings.                *)
(***************************************************************************)
EXTENDS Integers, Sequences, FiniteSets, TLC

VARIABLES
    \* ---- selectors/ref.rs: one call of resolve_selector ----
    selector,        \* the caller's selector string
    refs,            \* the ReferenceTable handed to the resolver
    resolved,        \* the call's Result, "pending" before the call
    \* ---- tools/javascript.rs, tools/network.rs: the shared logs ----
    console_entries, \* ConsoleLog.entries
    net_entries,     \* NetworkLog.entries
    net_enabled,     \* NetworkLog.enabled
    net_patterns,    \* NetworkLog.patterns
    console_added,   \* every entry ConsoleLog.add stored since the last clear
    net_added,       \* every entry NetworkLog.add stored
    add_calls,       \* number of add calls made on the two logs
    \* ---- tools/script.rs: one invocation of run_script ----
    pc,              \* position of run_script
    snapshot_refs,   \* ScriptContext.snapshot_refs (Option of a table)
    output_lines,    \* ScriptContext.output_lines
    screenshots,     \* ScriptContext.screenshots
    page_calls,      \* page primitives invoked so far, in order
    calls,           \* statements the script has executed so far, with outcome
    result,          \* what execute_in_boa returned to run_script
    ret,             \* what run_script returned to its caller
    \* ---- server.rs: the tool layer's stored ReferenceTable ----
    stored_refs,     \* RemixBrowserServer.snapshot_refs
    dom,             \* which document the active page shows
    tasks,           \* each in-flight tool call: its tool, position and locals
    \* ---- browser/pool.rs: the TabPool ----
    pages,           \* TabPool.pages, as target ids
    active_index,    \* TabPool.active_index
    next_tab,        \* target id the browser gives the next page it opens
    pool_ret,        \* outcome of the last TabPool operation
    \* ---- pure functions applied to one input ----
    args,            \* the arguments of the call
    out,             \* its return value, "pending" before the call
    \* ---- interaction/wait.rs, tools/dom.rs, tools/script.rs: waiting ----
    now,             \* milliseconds since the waiting call began
    page_has,        \* whether the awaited element is on the page now
    pending,         \* NetworkLog.pending_requests()
    wait,            \* the waiting call: its parameters, position and locals
    wait_ret,        \* what the call returned, "pending" before it returns
    \* ---- main.rs, server.rs: the process, its browser session, its calls ----
    main,            \* position of main and what the serve loop ended with
    session,         \* RemixBrowserServer.session and the browsers launched
    runs,            \* each run_script tool call: its position and locals
    \* ---- tools/snapshot.rs: one evaluation of the snapshot script ----
    walk,            \* the page, the walker's position and the script's locals
    \* ---- tools/network.rs: the listeners start_listening spawned ----
    listeners,       \* each spawned task: its two streams and its pending_map
    pending_count,   \* NetworkLog.pending_count
    emitted,         \* every event the browser emitted, in order
    \* ---- the tokio mutexes of the server and the logs ----
    lock_queue,      \* per mutex: its holder first, then the waiters in order
    lock_tasks       \* per task: the code path it runs and where it is

vars == <<selector, refs, resolved,
          console_entries, net_entries, net_enabled, net_patterns,
          console_added, net_added, add_calls,
          pc, snapshot_refs, output_lines, screenshots, page_calls, calls,
          result, ret,
          stored_refs, dom, tasks,
          pages, active_index, next_tab, pool_ret,
          args, out,
          now, page_has, pending, wait, wait_ret,
          main, session, runs,
          walk,
          listeners, pending_count, emitted,
          lock_queue, lock_tasks>>

resolverVars == <<selector, refs, resolved>>
logVars == <<console_entries, net_entries, net_enabled, net_patterns,
             console_added, net_added, add_calls>>
scriptVars == <<pc, snapshot_refs, output_lines, screenshots, page_calls,
                calls, result, ret>>
serverVars == <<stored_refs, dom, tasks>>
poolVars == <<pages, active_index, next_tab, pool_ret>>
callVars == <<args, out>>
waitVars == <<now, page_has, pending, wait, wait_ret>>
sessionVars == <<main, session, runs>>
snapVars == <<walk>>
listenerVars == <<listeners, pending_count, emitted>>
lockVars == <<lock_queue, lock_tasks>>
outsideResolver == <<logVars, scriptVars, serverVars, poolVars, callVars, waitVars,
    sessionVars, snapVars, listenerVars, lockVars>>
outsideLog == <<resolverVars, scriptVars, serverVars, poolVars, out, waitVars,
    sessionVars, snapVars, listenerVars, lockVars>>
outsideScript == <<resolverVars, logVars, serverVars, poolVars, callVars, waitVars,
    sessionVars, snapVars, listenerVars, lockVars>>
outsideServer == <<resolverVars, logVars, scriptVars, poolVars, callVars, waitVars,
    sessionVars, snapVars, listenerVars, lockVars>>
outsidePool == <<resolverVars, logVars, scriptVars, serverVars, callVars, waitVars,
    sessionVars, snapVars, listenerVars, lockVars>>
outsideCall == <<resolverVars, logVars, scriptVars, serverVars, poolVars, waitVars,
    sessionVars, snapVars, listenerVars, lockVars>>
outsideWait == <<resolverVars, logVars, scriptVars, serverVars, poolVars, callVars,
    sessionVars, snapVars, listenerVars, lockVars>>
outsideSession == <<resolverVars, logVars, scriptVars, dom, tasks, poolVars, callVars,
    waitVars, snapVars, listenerVars, lockVars>>
outsideSnap == <<resolverVars, logVars, scriptVars, serverVars, poolVars, callVars,
    waitVars, sessionVars, listenerVars, lockVars>>
outsideListener == <<resolverVars, console_entries, console_added, add_calls,
    scriptVars, serverVars, poolVars, callVars, waitVars, sessionVars, snapVars, lockVars>>
outsideLocks == <<resolverVars, logVars, scriptVars, serverVars, poolVars, callVars,
    waitVars, sessionVars, snapVars, listenerVars>>

(***************************************************************************)
(* Strings                                                                 *)
(***************************************************************************)
None == [some |-> FALSE]
Some(v) == [some |-> TRUE, val |-> v]

\* char::is_whitespace, on the characters the model draws from
is_whitespace(c) == c \in {" ", "\t"}

\* char::is_ascii_digit
is_ascii_digit(c) == c \in {"0", "1", "2", "3", "4", "5", "6", "7", "8", "9"}

RECURSIVE trim_start(_)
trim_start(s) ==
    IF s # <<>> /\ is_whitespace(Head(s)) THEN trim_start(Tail(s)) ELSE s

RECURSIVE trim_end(_)
trim_end(s) ==
    IF s # <<>> /\ is_whitespace(s[Len(s)])
    THEN trim_end(SubSeq(s, 1, Len(s) - 1))
    ELSE s

\* str::trim
trim(s) == trim_end(trim_start(s))

\* str::starts_with
starts_with(s, p) == Len(s) >= Len(p) /\ SubSeq(s, 1, Len(p)) = p

\* str::ends_with
ends_with(s, p) ==
    Len(s) >= Len(p) /\ SubSeq(s, Len(s) - Len(p) + 1, Len(s)) = p

\* str::strip_prefix
strip_prefix(s, p) ==
    IF starts_with(s, p) THEN Some(SubSeq(s, Len(p) + 1, Len(s))) ELSE None

\* str::strip_suffix
strip_suffix(s, p) ==
    IF ends_with(s, p) THEN Some(SubSeq(s, 1, Len(s) - Len(p))) ELSE None

\* str::contains
contains(s, p) ==
    \E i \in 0..(Len(s) - Len(p)) : SubSeq(s, i + 1, i + Len(p)) = p

RefEq == <<"r", "e", "f", "=">>
BracketRefEq == <<"[", "r", "e", "f", "=">>
CloseBracket == <<"]">>

(***************************************************************************)
(* selectors/ref.rs                                                        *)
(***************************************************************************)
Ok(v) == [kind |-> "Ok", val |-> v]
NotFound(ref_id) == [kind |-> "NotFound", val |-> ref_id]
InvalidFormat(sel) == [kind |-> "InvalidFormat", val |-> sel]
Pending == [kind |-> "pending", val |-> <<>>]

is_valid_ref_token(token) ==
    /\ token # <<>>
    /\ Head(token) = "e"
    /\ \A i \in 2..Len(token) : is_ascii_digit(token[i])
    /\ Tail(token) # <<>>

\* mutant: the closing bracket of [ref=eN] is not stripped
parse_ref_keeps_bracket(sel) ==
    LET trimmed == trim(sel)
        token == IF starts_with(trimmed, BracketRefEq)
                 THEN strip_prefix(trimmed, BracketRefEq)
                 ELSE IF starts_with(trimmed, RefEq)
                      THEN strip_prefix(trimmed, RefEq)
                      ELSE Some(trimmed)
    IN  IF token.some /\ is_valid_ref_token(token.val) THEN token ELSE None

parse_ref(sel) ==
    LET trimmed == trim(sel)
        token == IF starts_with(trimmed, BracketRefEq)
                 THEN strip_suffix(strip_prefix(trimmed, BracketRefEq).val,
                                   CloseBracket)
                 ELSE IF starts_with(trimmed, RefEq)
                      THEN strip_prefix(trimmed, RefEq)
                      ELSE Some(trimmed)
    IN  IF token.some /\ is_valid_ref_token(token.val) THEN token ELSE None

\* mutant: the stale-ref error carries the selector as written, not the token
resolve_selector_names_selector(sel, table) ==
    LET trimmed == trim(sel)
        ref_id == parse_ref(trimmed)
    IN  IF ref_id.some
        THEN IF ref_id.val \in DOMAIN table
             THEN Ok(table[ref_id.val])
             ELSE NotFound(trimmed)
        ELSE IF starts_with(trimmed, RefEq) \/ starts_with(trimmed, BracketRefEq)
             THEN InvalidFormat(trimmed)
             ELSE Ok(sel)

\* mutant: only the ref= prefix is recognised as an explicit reference
resolve_selector_misses_bracket(sel, table) ==
    LET trimmed == trim(sel)
        ref_id == parse_ref(trimmed)
    IN  IF ref_id.some
        THEN IF ref_id.val \in DOMAIN table
             THEN Ok(table[ref_id.val])
             ELSE NotFound(ref_id.val)
        ELSE IF starts_with(trimmed, RefEq)
             THEN InvalidFormat(trimmed)
             ELSE Ok(sel)

\* mutant: a literal selector is returned trimmed
resolve_selector_trims_literal(sel, table) ==
    LET trimmed == trim(sel)
        ref_id == parse_ref(trimmed)
    IN  IF ref_id.some
        THEN IF ref_id.val \in DOMAIN table
             THEN Ok(table[ref_id.val])
             ELSE NotFound(ref_id.val)
        ELSE IF starts_with(trimmed, RefEq) \/ starts_with(trimmed, BracketRefEq)
             THEN InvalidFormat(trimmed)
             ELSE Ok(trimmed)

resolve_selector(sel, table) ==
    LET trimmed == trim(sel)
        ref_id == parse_ref(trimmed)
    IN  IF ref_id.some
        THEN IF ref_id.val \in DOMAIN table
             THEN Ok(table[ref_id.val])
             ELSE NotFound(ref_id.val)
        ELSE IF starts_with(trimmed, RefEq) \/ starts_with(trimmed, BracketRefEq)
             THEN InvalidFormat(trimmed)
             ELSE Ok(sel)

(***************************************************************************)
(* Specification SpecResolve: resolve_selector applied to one input        *)
(***************************************************************************)
MaxBody == 3

BodyChars == {"e", "0", "7", "#", "]", " "}

Bodies == UNION {[1..n -> BodyChars] : n \in 0..MaxBody}

Leads == {<<>>, <<" ">>}
Trails == {<<>>, <<"\t">>}
Prefixes == {<<>>, RefEq, BracketRefEq}

Selectors ==
    {l \o p \o b \o t : l \in Leads, p \in Prefixes, b \in Bodies, t \in Trails}

\* Tokens and concrete selectors a snapshot hands out
E0 == <<"e", "0">>
E7 == <<"e", "7">>
E07 == <<"e", "0", "7">>
SelOf(token) ==
    CASE token = E0 -> <<"#", "a">>
      [] token = E7 -> <<"#", "b">>
      [] OTHER -> <<"b", "o", "d", "y", " ", ">", " ", "a">>

Tables == {[t \in K |-> SelOf(t)] : K \in SUBSET {E0, E7, E07}}

InitLogsIdle ==
    /\ console_entries = <<>>
    /\ net_entries = <<>>
    /\ net_enabled = FALSE
    /\ net_patterns = <<>>
    /\ console_added = <<>>
    /\ net_added = <<>>
    /\ add_calls = 0

InitScriptIdle ==
    /\ pc = "idle"
    /\ snapshot_refs = None
    /\ output_lines = <<>>
    /\ screenshots = <<>>
    /\ page_calls = <<>>
    /\ calls = <<>>
    /\ result = Pending
    /\ ret = Pending

InitResolverIdle ==
    /\ selector = <<>>
    /\ refs = <<>>
    /\ resolved = Pending

InitServerIdle ==
    /\ stored_refs = <<>>
    /\ dom = 0
    /\ tasks = <<>>

InitPoolIdle ==
    /\ pages = <<>>
    /\ active_index = 0
    /\ next_tab = 0
    /\ pool_ret = [kind |-> "pending", page |-> 0]

InitCallIdle ==
    /\ args = <<>>
    /\ out = Pending

InitWaitIdle ==
    /\ now = 0
    /\ page_has = FALSE
    /\ pending = 0
    /\ wait = <<>>
    /\ wait_ret = [kind |-> "pending", val |-> FALSE, err |-> "none"]

InitSessionIdle ==
    /\ main = <<>>
    /\ session = <<>>
    /\ runs = <<>>

InitSnapIdle ==
    walk = <<>>

InitListenerIdle ==
    /\ listeners = <<>>
    /\ pending_count = 0
    /\ emitted = <<>>

InitLockIdle ==
    /\ lock_queue = <<>>
    /\ lock_tasks = <<>>

InitNewIdle ==
    InitSessionIdle /\ InitSnapIdle /\ InitListenerIdle /\ InitLockIdle

InitOutsideResolver ==
    InitLogsIdle /\ InitScriptIdle /\ InitServerIdle /\ InitPoolIdle /\ InitCallIdle /\ InitWaitIdle /\ InitNewIdle
InitOutsideLog ==
    /\ InitResolverIdle /\ InitScriptIdle /\ InitServerIdle /\ InitPoolIdle
    /\ InitWaitIdle /\ InitNewIdle
    /\ out = Pending
InitOutsideScript ==
    InitResolverIdle /\ InitLogsIdle /\ InitServerIdle /\ InitPoolIdle /\ InitCallIdle /\ InitWaitIdle /\ InitNewIdle
InitOutsideServer ==
    InitResolverIdle /\ InitLogsIdle /\ InitScriptIdle /\ InitPoolIdle /\ InitCallIdle /\ InitWaitIdle /\ InitNewIdle
InitOutsidePool ==
    InitResolverIdle /\ InitLogsIdle /\ InitScriptIdle /\ InitServerIdle /\ InitCallIdle /\ InitWaitIdle /\ InitNewIdle
InitOutsideCall ==
    InitResolverIdle /\ InitLogsIdle /\ InitScriptIdle /\ InitServerIdle /\ InitPoolIdle /\ InitWaitIdle /\ InitNewIdle
InitOutsideWait ==
    InitResolverIdle /\ InitLogsIdle /\ InitScriptIdle /\ InitServerIdle /\ InitPoolIdle /\ InitCallIdle /\ InitNewIdle

InitOutsideSession ==
    /\ InitResolverIdle /\ InitLogsIdle /\ InitScriptIdle /\ InitPoolIdle
    /\ InitCallIdle /\ InitWaitIdle /\ InitSnapIdle /\ InitListenerIdle
    /\ InitLockIdle
    /\ dom = 0 /\ tasks = <<>>
InitOutsideSnap ==
    /\ InitResolverIdle /\ InitLogsIdle /\ InitScriptIdle /\ InitServerIdle
    /\ InitPoolIdle /\ InitCallIdle /\ InitWaitIdle /\ InitSessionIdle
    /\ InitListenerIdle /\ InitLockIdle
InitOutsideListener ==
    /\ InitResolverIdle /\ InitScriptIdle /\ InitServerIdle /\ InitPoolIdle
    /\ InitCallIdle /\ InitWaitIdle /\ InitSessionIdle /\ InitSnapIdle
    /\ InitLockIdle
    /\ console_entries = <<>> /\ console_added = <<>>
    /\ add_calls = 0
InitOutsideLocks ==
    /\ InitResolverIdle /\ InitLogsIdle /\ InitScriptIdle /\ InitServerIdle
    /\ InitPoolIdle /\ InitCallIdle /\ InitWaitIdle /\ InitSessionIdle
    /\ InitSnapIdle /\ InitListenerIdle

InitResolve ==
    /\ selector \in Selectors
    /\ refs \in Tables
    /\ resolved = Pending
    /\ InitOutsideResolver

ResolveSelector ==
    /\ resolved = Pending
    /\ resolved' = resolve_selector(selector, refs)
    /\ UNCHANGED <<selector, refs, outsideResolver>>

NextResolve == ResolveSelector

SpecResolve == InitResolve /\ [][NextResolve]_vars

(***************************************************************************)
(* The reference forms, stated without the resolver's own parsing          *)
(***************************************************************************)
\* s without its surrounding whitespace
Stripped(s) ==
    LET solid == {k \in 1..Len(s) : ~is_whitespace(s[k])}
    IN  IF solid = {}
        THEN <<>>
        ELSE SubSeq(s, CHOOSE k \in solid : \A m \in solid : k <= m,
                       CHOOSE k \in solid : \A m \in solid : k >= m)

\* 'e' followed by one or more ASCII digits
IsRefToken(t) ==
    /\ Len(t) >= 2
    /\ t[1] = "e"
    /\ \A i \in 2..Len(t) : t[i] \in {"0", "1", "2", "3", "4", "5", "6", "7", "8", "9"}

\* the three accepted forms of token t
RefForms(t) == {t, RefEq \o t, BracketRefEq \o t \o CloseBracket}

\* the tokens s is a reference form of (at most one)
TokensOf(s) ==
    LET u == Stripped(s)
    IN  {t \in {SubSeq(u, k, m) : k \in {1, 5, 6}, m \in {Len(u) - 1, Len(u)}} :
            IsRefToken(t) /\ u \in RefForms(t)}

LooksLikeRef(s) ==
    LET u == Stripped(s)
    IN  \/ Len(u) >= 4 /\ SubSeq(u, 1, 4) = RefEq
        \/ Len(u) >= 5 /\ SubSeq(u, 1, 5) = BracketRefEq

\* C1: for every token t of the table, the forms t, ref=t and [ref=t], with
\* or without surrounding whitespace, all resolve to the selector the table
\* maps t to.
C1_FormsResolveAlike ==
    \A t \in DOMAIN refs :
        (resolved # Pending /\ Stripped(selector) \in RefForms(t))
            => resolved = Ok(refs[t])

C1_Witness ==
    /\ resolved.kind = "Ok"
    /\ selector # Stripped(selector)
    /\ \E t \in DOMAIN refs :
           Stripped(selector) = BracketRefEq \o t \o CloseBracket

\* C2: an input in reference form whose token is not a key of the table
\* fails with NotFound carrying exactly the bare token.
C2_StaleNamesToken ==
    \A t \in TokensOf(selector) :
        (resolved # Pending /\ t \notin DOMAIN refs) => resolved = NotFound(t)

C2_Witness ==
    /\ resolved.kind = "NotFound"
    /\ selector # resolved.val
    /\ refs # <<>>

\* C3: an input that begins, after trimming, with ref= or [ref= and whose
\* token breaks the grammar fails with InvalidFormat whatever the table holds.
C3_MalformedIsInvalidFormat ==
    (resolved # Pending /\ LooksLikeRef(selector) /\ TokensOf(selector) = {})
        => resolved.kind = "InvalidFormat"

C3_Witness ==
    /\ resolved.kind = "InvalidFormat"
    /\ Stripped(selector) = BracketRefEq \o E0
    /\ E0 \in DOMAIN refs

\* C4: an input that is no reference form and does not begin with ref= or
\* [ref= is returned unchanged; the four outcomes (resolved, stale, invalid
\* format, pass-through) are decided by the input's class alone, one each.
C4_PassThroughAndPartition ==
    resolved # Pending =>
        LET toks == TokensOf(selector)
            hit == \E t \in toks : t \in DOMAIN refs
            stale == \E t \in toks : t \notin DOMAIN refs
            invalid == toks = {} /\ LooksLikeRef(selector)
            literal == toks = {} /\ ~LooksLikeRef(selector)
        IN  /\ literal => resolved = Ok(selector)
            /\ Cardinality({c \in {"hit", "stale", "invalid", "literal"} :
                   \/ c = "hit" /\ hit
                   \/ c = "stale" /\ stale
                   \/ c = "invalid" /\ invalid
                   \/ c = "literal" /\ literal}) = 1
            /\ hit <=> (resolved.kind = "Ok" /\ ~literal)
            /\ stale <=> resolved.kind = "NotFound"
            /\ invalid <=> resolved.kind = "InvalidFormat"
            /\ literal <=> (resolved.kind = "Ok" /\ ~hit)

C4_Witness ==
    /\ resolved = Ok(selector)
    /\ selector # Stripped(selector)
    /\ Len(Stripped(selector)) >= 2
    /\ refs # <<>>

(***************************************************************************)
(* tools/javascript.rs, tools/network.rs: the shared logs                  *)
(*                                                                         *)
(* Each operation below runs under the tokio Mutex of the state it touches *)
(* and awaits nothing else while it holds it (NetworkLog::add holds the    *)
(* `enabled` lock from its first line to its last, NetworkLog::enable      *)
(* holds it while it replaces the patterns), so concurrent calls serialise *)
(* and each call is one atomic step.                                       *)
(***************************************************************************)
ConsoleCapacity == 1000
NetworkCapacity == 500

Levels == {"log", "error"}
UrlApi == <<"/", "a", "p", "i">>
UrlImg == <<"/", "i", "m", "g">>
Urls == {UrlApi, UrlImg}
PatternVecs == {<<>>, << <<"a", "p">> >>, << <<"i", "m">>, <<"x">> >>}

ConsoleEntry(n, level) == [id |-> n, level |-> level]
NetworkEntry(n, url) == [id |-> n, url |-> url]

\* mutant: the capacity test is `>` instead of `>=`
ConsoleLog_add_late_eviction(entry) ==
    /\ console_entries' =
           IF Len(console_entries) > ConsoleCapacity
           THEN Append(Tail(console_entries), entry)
           ELSE Append(console_entries, entry)
    /\ console_added' = Append(console_added, entry)

ConsoleLog_add(entry) ==
    /\ console_entries' =
           IF Len(console_entries) >= ConsoleCapacity
           THEN Append(Tail(console_entries), entry)
           ELSE Append(console_entries, entry)
    /\ console_added' = Append(console_added, entry)

ConsoleLog_read(clear) ==
    /\ console_entries' = IF clear THEN <<>> ELSE console_entries
    /\ console_added' = IF clear THEN <<>> ELSE console_added

NetworkLog_enable(patterns) ==
    /\ net_enabled' = TRUE
    /\ net_patterns' = IF patterns.some THEN patterns.val ELSE net_patterns

\* mutant: the URL filters are not consulted
NetworkLog_add_ignores_filter(entry) ==
    IF ~net_enabled
    THEN UNCHANGED <<net_entries, net_added>>
    ELSE /\ net_entries' =
                IF Len(net_entries) >= NetworkCapacity
                THEN Append(Tail(net_entries), entry)
                ELSE Append(net_entries, entry)
         /\ net_added' = Append(net_added, entry)

\* mutant: a full log drops its newest entry instead of its oldest
NetworkLog_add_drops_newest(entry) ==
    IF ~net_enabled
    THEN UNCHANGED <<net_entries, net_added>>
    ELSE IF /\ net_patterns # <<>>
            /\ ~\E i \in 1..Len(net_patterns) : contains(entry.url, net_patterns[i])
         THEN UNCHANGED <<net_entries, net_added>>
         ELSE /\ net_entries' =
                     IF Len(net_entries) >= NetworkCapacity
                     THEN Append(SubSeq(net_entries, 1, Len(net_entries) - 1), entry)
                     ELSE Append(net_entries, entry)
              /\ net_added' = Append(net_added, entry)

NetworkLog_add(entry) ==
    IF ~net_enabled
    THEN UNCHANGED <<net_entries, net_added>>
    ELSE IF /\ net_patterns # <<>>
            /\ ~\E i \in 1..Len(net_patterns) : contains(entry.url, net_patterns[i])
         THEN UNCHANGED <<net_entries, net_added>>
         ELSE /\ net_entries' =
                     IF Len(net_entries) >= NetworkCapacity
                     THEN Append(Tail(net_entries), entry)
                     ELSE Append(net_entries, entry)
              /\ net_added' = Append(net_added, entry)

(***************************************************************************)
(* Specification SpecLog: calls on the two logs, in any order, from a      *)
(* fresh log or from one that earlier add calls have filled to just below  *)
(* its capacity                                                            *)
(***************************************************************************)
MaxAdds == 6
Headroom == 2

Filled(n, Entry(_)) == [i \in 1..n |-> Entry(i)]
FilledConsoleEntry(i) == ConsoleEntry(i, "log")
FilledNetworkEntry(i) == NetworkEntry(i, UrlApi)

InitLog ==
    /\ \E c0 \in {0, ConsoleCapacity - Headroom} :
           /\ console_entries = Filled(c0, FilledConsoleEntry)
           /\ console_added = console_entries
    /\ \E n0 \in {0, NetworkCapacity - Headroom} :
           /\ net_entries = Filled(n0, FilledNetworkEntry)
           /\ net_added = net_entries
           /\ net_enabled = (n0 > 0)
    /\ net_patterns \in (IF net_enabled THEN PatternVecs ELSE {<<>>})
    /\ add_calls = 0
    /\ args = NetworkEntry(0, <<>>)
    /\ InitOutsideLog

ConsoleAdd ==
    /\ add_calls < MaxAdds
    /\ \E level \in Levels :
           ConsoleLog_add(ConsoleEntry(Len(console_added) + 1, level))
    /\ add_calls' = add_calls + 1
    /\ UNCHANGED <<net_entries, net_added, net_enabled, net_patterns, args>>
    /\ UNCHANGED outsideLog

ConsoleRead ==
    /\ \E clear \in BOOLEAN : ConsoleLog_read(clear)
    /\ UNCHANGED <<net_entries, net_added, net_enabled, net_patterns, add_calls, args>>
    /\ UNCHANGED outsideLog

NetworkEnable ==
    /\ \E patterns \in {None} \cup {Some(p) : p \in PatternVecs} :
           NetworkLog_enable(patterns)
    /\ UNCHANGED <<console_entries, console_added, net_entries, net_added, add_calls,
                   args>>
    /\ UNCHANGED outsideLog

NetworkAdd ==
    /\ add_calls < MaxAdds
    /\ \E url \in Urls :
           /\ args' = NetworkEntry(Len(net_added) + 1, url)
           /\ NetworkLog_add(args')
    /\ add_calls' = add_calls + 1
    /\ UNCHANGED <<console_entries, console_added, net_enabled, net_patterns>>
    /\ UNCHANGED outsideLog

NextLog == ConsoleAdd \/ ConsoleRead \/ NetworkEnable \/ NetworkAdd

SpecLog == InitLog /\ [][NextLog]_vars

\* the last n elements of s (all of s when it is shorter)
LastN(s, n) == SubSeq(s, IF Len(s) > n THEN Len(s) - n + 1 ELSE 1, Len(s))

\* C5: the ConsoleLog never holds more than 1000 entries and the NetworkLog
\* never more than 500, whatever calls were made on them and in what order.
C5_LogsBounded ==
    /\ Len(console_entries) <= ConsoleCapacity
    /\ Len(net_entries) <= NetworkCapacity

C5_Witness ==
    /\ Len(console_entries) = ConsoleCapacity
    /\ Len(console_added) > ConsoleCapacity
    /\ Len(net_entries) = NetworkCapacity
    /\ Len(net_added) > NetworkCapacity

\* C6: eviction is first-in-first-out, one entry per accepted add: the buffer
\* always equals the most recent C accepted entries, in insertion order (for
\* the ConsoleLog: accepted since the buffer was last cleared).
C6_FifoEviction ==
    /\ console_entries = LastN(console_added, ConsoleCapacity)
    /\ net_entries = LastN(net_added, NetworkCapacity)

C6_Witness ==
    /\ Len(net_added) = NetworkCapacity + 2
    /\ Len(net_entries) = NetworkCapacity
    /\ net_entries[1].id = 3
    /\ net_entries[NetworkCapacity].id = NetworkCapacity + 2

(***************************************************************************)
(* selectors/mod.rs: has-text normalisation                                *)
(***************************************************************************)
HasTextOpen == <<":", "h", "a", "s", "-", "t", "e", "x", "t", "(">>

\* str::find: the 0-based offset of the first occurrence of p in s
find(s, p) ==
    LET at == {i \in 0..(Len(s) - Len(p)) : SubSeq(s, i + 1, i + Len(p)) = p}
    IN  IF at = {} THEN None ELSE Some(CHOOSE i \in at : \A j \in at : i <= j)

\* mutant: the closing quote is the last one, not the next one
normalize_selector_type_last_quote(sel, selector_type) ==
    LET unchanged == [selector |-> sel, selector_type |-> selector_type]
        start == find(sel, HasTextOpen)
        after == SubSeq(sel, start.val + Len(HasTextOpen) + 1, Len(sel))
        quote == IF starts_with(after, <<"\"">>) THEN Some(<<"\"">>)
                 ELSE IF starts_with(after, <<"'">>) THEN Some(<<"'">>)
                 ELSE None
        rest == Tail(after)
        ends == {i \in 0..(Len(rest) - 1) : <<rest[i + 1]>> = quote.val}
    IN  IF selector_type # "Css" \/ ~start.some THEN unchanged
        ELSE IF ~quote.some THEN unchanged
        ELSE IF ends # {}
             THEN [selector |-> SubSeq(rest, 1, CHOOSE i \in ends : \A j \in ends : j <= i),
                   selector_type |-> "Text"]
             ELSE unchanged

normalize_selector_type(sel, selector_type) ==
    LET unchanged == [selector |-> sel, selector_type |-> selector_type]
        start == find(sel, HasTextOpen)
        after == SubSeq(sel, start.val + Len(HasTextOpen) + 1, Len(sel))
        quote == IF starts_with(after, <<"\"">>) THEN Some(<<"\"">>)
                 ELSE IF starts_with(after, <<"'">>) THEN Some(<<"'">>)
                 ELSE None
        rest == Tail(after)
        end == find(rest, quote.val)
    IN  IF selector_type # "Css" \/ ~start.some THEN unchanged
        ELSE IF ~quote.some THEN unchanged
        ELSE IF end.some
             THEN [selector |-> SubSeq(rest, 1, end.val), selector_type |-> "Text"]
             ELSE unchanged

(***************************************************************************)
(* tools/script.rs: ScriptContext::resolve_ref                             *)
(***************************************************************************)
\* byte order of the characters a token is made of
CharOrder == <<"0", "1", "2", "3", "4", "5", "6", "7", "8", "9", "e">>
CharRank(c) == CHOOSE i \in 1..Len(CharOrder) : CharOrder[i] = c

\* String::cmp, a <= b
RECURSIVE str_le(_, _)
str_le(a, b) ==
    IF a = <<>> THEN TRUE
    ELSE IF b = <<>> THEN FALSE
    ELSE IF Head(a) = Head(b) THEN str_le(Tail(a), Tail(b))
    ELSE CharRank(Head(a)) < CharRank(Head(b))

\* keys.sort(); "first-last", or "none" for an empty table
AvailableRange(table) ==
    LET keys == DOMAIN table
    IN  IF keys = {} THEN <<"none">>
        ELSE <<CHOOSE k \in keys : \A m \in keys : str_le(k, m),
               CHOOSE k \in keys : \A m \in keys : str_le(m, k)>>

RefNotFoundMsg(ref_id, table) ==
    [kind |-> "RefNotFound", ref_id |-> ref_id, available |-> AvailableRange(table)]
NoSnapshotMsg == [kind |-> "NoSnapshot"]

Err(e) == [kind |-> "Err", val |-> e]

\* mutant: a stale ref is handed to the page primitive as a literal selector
resolve_ref_passes_stale(sel, srefs) ==
    IF srefs.some
    THEN LET r == resolve_selector(sel, srefs.val)
         IN  IF r.kind = "Ok" THEN Ok(r.val) ELSE Ok(sel)
    ELSE IF parse_ref(sel).some THEN Ok(sel) ELSE Ok(sel)

resolve_ref(sel, srefs) ==
    IF srefs.some
    THEN LET r == resolve_selector(sel, srefs.val)
         IN  IF r.kind = "Ok" THEN Ok(r.val)
             ELSE IF r.kind = "NotFound"
                  THEN Err(RefNotFoundMsg(r.val, srefs.val))
                  ELSE Ok(sel)
    ELSE IF parse_ref(sel).some THEN Err(NoSnapshotMsg) ELSE Ok(sel)

(***************************************************************************)
(* tools/script.rs: run_script and the capabilities bound into the script  *)
(*                                                                         *)
(* The script is the sequence of statements the interpreter executes; each *)
(* step of the worker picks the next one.  An exception a capability or a  *)
(* throw statement raises is not caught by the script: it ends the         *)
(* evaluation.  The page is outside the model: a primitive the script      *)
(* reaches is recorded in page_calls and succeeds or fails.  Elapsed time  *)
(* and the text of the final URL and title are not represented.            *)
(***************************************************************************)
MaxCalls == 2

SelectorCaps == {"click", "type", "hover", "select", "fill", "waitFor",
                 "getText", "getHtml", "findElements"}
\* the capabilities that pass the resolved selector through has-text
\* normalisation before they build the primitive's parameters
NormalizingCaps == {"click", "type", "hover", "select", "fill"}

RefE0 == BracketRefEq \o E0 \o CloseBracket
RefMalformed == RefEq \o <<"x">>
CssA == <<"#", "a">>
ScriptSelectors == {RefE0, RefMalformed, CssA}
ScriptTables == {[t \in K |-> SelOf(t)] : K \in {{}, {E0}, {E7, E07}}}
Lines == {<<"a">>, <<"b", "c">>}
Payloads == {"png1", "png2"}

\* Vec<String>::join
RECURSIVE join(_, _)
join(lines, sep) ==
    IF lines = <<>> THEN <<>>
    ELSE IF Len(lines) = 1 THEN lines[1]
    ELSE lines[1] \o sep \o join(Tail(lines), sep)

\* the statement being executed, with the table in flight when it starts
Call(cap, arg) == [cap |-> cap, arg |-> arg, table |-> snapshot_refs]

\* the capability returns to the script, which goes on
Returns(call) ==
    /\ calls' = Append(calls, [cap |-> call.cap, arg |-> call.arg,
                               table |-> call.table, threw |-> FALSE,
                               prims |-> Len(page_calls')])
    /\ UNCHANGED <<pc, result>>

\* js_err(..)?: the exception leaves js_ctx.eval, execute_in_boa returns Err
Throws(call, err) ==
    /\ calls' = Append(calls, [cap |-> call.cap, arg |-> call.arg,
                               table |-> call.table, threw |-> TRUE,
                               prims |-> Len(page_calls')])
    /\ result' = Err(err)
    /\ pc' = "joined"

PrimitiveError(prim) == [kind |-> "Primitive", prim |-> prim]

\* handle.block_on(primitive).map_err(js_err)
Invoke(prim, sel, selector_type) ==
    page_calls' = Append(page_calls, [prim |-> prim, selector |-> sel,
                                      selector_type |-> selector_type])

make_console_log(line) ==
    /\ output_lines' = Append(output_lines, line)
    /\ UNCHANGED <<snapshot_refs, screenshots, page_calls>>
    /\ Returns(Call("console.log", line))

make_screenshot ==
    /\ Invoke("screenshot", None, None)
    /\ \/ \E base64 \in Payloads :
              /\ screenshots' = Append(screenshots, base64)
              /\ Returns(Call("screenshot", base64))
       \/ /\ Throws(Call("screenshot", None), PrimitiveError("screenshot"))
          /\ UNCHANGED screenshots
    /\ UNCHANGED <<snapshot_refs, output_lines>>

\* mutant: the new table is merged into the one in flight
make_snapshot_merges ==
    /\ Invoke("snapshot", None, None)
    /\ \/ \E table \in ScriptTables :
              /\ snapshot_refs' =
                     IF snapshot_refs.some
                     THEN Some([t \in DOMAIN table \cup DOMAIN snapshot_refs.val |->
                                   IF t \in DOMAIN table THEN table[t]
                                   ELSE snapshot_refs.val[t]])
                     ELSE Some(table)
              /\ Returns(Call("snapshot", table))
       \/ /\ Throws(Call("snapshot", None), PrimitiveError("snapshot"))
          /\ UNCHANGED snapshot_refs
    /\ UNCHANGED <<output_lines, screenshots>>

make_snapshot ==
    /\ Invoke("snapshot", None, None)
    /\ \/ \E table \in ScriptTables :
              /\ snapshot_refs' = Some(table)
              /\ Returns(Call("snapshot", table))
       \/ /\ Throws(Call("snapshot", None), PrimitiveError("snapshot"))
          /\ UNCHANGED snapshot_refs
    /\ UNCHANGED <<output_lines, screenshots>>

\* make_click, make_type, make_hover, make_select, make_fill, make_wait_for,
\* make_get_text, make_get_html (called with a selector string) and
\* make_find_elements, called without a `type` option
make_selector_capability(cap, sel) ==
    LET r == resolve_ref(sel, snapshot_refs)
        n == IF cap \in NormalizingCaps
             THEN normalize_selector_type(r.val, "Css")
             ELSE [selector |-> r.val, selector_type |-> None]
    IN  /\ IF r.kind = "Err"
           THEN /\ UNCHANGED page_calls
                /\ Throws(Call(cap, sel), r.val)
           ELSE /\ Invoke(cap, n.selector, n.selector_type)
                /\ \/ Returns(Call(cap, sel))
                   \/ Throws(Call(cap, sel), PrimitiveError(cap))
        /\ UNCHANGED <<snapshot_refs, output_lines, screenshots>>

make_navigate ==
    /\ Invoke("navigate", None, None)
    /\ \/ Returns(Call("navigate", None))
       \/ Throws(Call("navigate", None), PrimitiveError("navigate"))
    /\ UNCHANGED <<snapshot_refs, output_lines, screenshots>>

\* mutant: a failed script's output is dropped
ScriptResult_drops_output(res) ==
    IF res.kind = "Ok"
    THEN [success |-> TRUE, output |-> join(output_lines, <<"\n">>), error |-> None]
    ELSE [success |-> FALSE, output |-> <<>>, error |-> Some(res.val)]

\* the ScriptResult run_script builds from the worker's result
ScriptResult(res) ==
    IF res.kind = "Ok"
    THEN [success |-> TRUE, output |-> join(output_lines, <<"\n">>), error |-> None]
    ELSE [success |-> FALSE, output |-> join(output_lines, <<"\n">>),
          error |-> Some(res.val)]

(***************************************************************************)
(* Specification Spec: one invocation of run_script                        *)
(***************************************************************************)
Init ==
    /\ pc = "boa"
    /\ snapshot_refs \in {None} \cup {Some(t) : t \in ScriptTables}
    /\ output_lines = <<>>
    /\ screenshots = <<>>
    /\ page_calls = <<>>
    /\ calls = <<>>
    /\ result = Pending
    /\ ret = Pending
    /\ InitOutsideScript

Running == pc = "boa" /\ Len(calls) < MaxCalls

\* js_ctx.eval rejects the source before it executes anything
ParseFailure ==
    /\ pc = "boa"
    /\ calls = <<>>
    /\ result' = Err([kind |-> "SyntaxError"])
    /\ pc' = "joined"
    /\ UNCHANGED <<snapshot_refs, output_lines, screenshots, page_calls, calls, ret>>
    /\ UNCHANGED outsideScript

ConsoleLogCall ==
    /\ Running
    /\ \E line \in Lines : make_console_log(line)
    /\ UNCHANGED <<ret, outsideScript>>

ScreenshotCall ==
    /\ Running
    /\ make_screenshot
    /\ UNCHANGED <<ret, outsideScript>>

SnapshotCall ==
    /\ Running
    /\ make_snapshot
    /\ UNCHANGED <<ret, outsideScript>>

SelectorCall ==
    /\ Running
    /\ \E cap \in SelectorCaps, sel \in ScriptSelectors :
           make_selector_capability(cap, sel)
    /\ UNCHANGED <<ret, outsideScript>>

NavigateCall ==
    /\ Running
    /\ make_navigate
    /\ UNCHANGED <<ret, outsideScript>>

\* a throw statement of the script itself
ThrowStatement ==
    /\ Running
    /\ UNCHANGED <<snapshot_refs, output_lines, screenshots, page_calls, ret>>
    /\ Throws(Call("throw", None), [kind |-> "Uncaught"])
    /\ UNCHANGED outsideScript

\* the last top-level statement completed
ScriptEnd ==
    /\ pc = "boa"
    /\ result' = Ok(<<>>)
    /\ pc' = "joined"
    /\ UNCHANGED <<snapshot_refs, output_lines, screenshots, page_calls, calls, ret>>
    /\ UNCHANGED outsideScript

\* the blocking task panics or is cancelled: its JoinHandle yields a JoinError
WorkerPanic ==
    /\ pc = "boa"
    /\ result' = [kind |-> "JoinError"]
    /\ pc' = "joined"
    /\ UNCHANGED <<snapshot_refs, output_lines, screenshots, page_calls, calls, ret>>
    /\ UNCHANGED outsideScript

\* spawn_blocking(..).await?
Join ==
    /\ pc = "joined"
    /\ IF result.kind = "JoinError"
       THEN ret' = Err([kind |-> "JoinError"]) /\ pc' = "done"
       ELSE ret' = ret /\ pc' = "url"
    /\ UNCHANGED <<snapshot_refs, output_lines, screenshots, page_calls, calls, result>>
    /\ UNCHANGED outsideScript

\* page.url().await?
ReadUrl ==
    /\ pc = "url"
    /\ \/ ret' = ret /\ pc' = "title"
       \/ ret' = Err([kind |-> "Transport", at |-> "url"]) /\ pc' = "done"
    /\ UNCHANGED <<snapshot_refs, output_lines, screenshots, page_calls, calls, result>>
    /\ UNCHANGED outsideScript

\* page.get_title().await? and the rest of run_script
ReadTitle ==
    /\ pc = "title"
    /\ \/ /\ ret' = Ok([result |-> ScriptResult(result),
                        contents |-> screenshots,
                        snapshot_refs |-> snapshot_refs])
          /\ snapshot_refs' = None
       \/ /\ ret' = Err([kind |-> "Transport", at |-> "title"])
          /\ UNCHANGED snapshot_refs
    /\ pc' = "done"
    /\ UNCHANGED <<output_lines, screenshots, page_calls, calls, result>>
    /\ UNCHANGED outsideScript

Next ==
    \/ ParseFailure
    \/ ConsoleLogCall
    \/ ScreenshotCall
    \/ SnapshotCall
    \/ SelectorCall
    \/ NavigateCall
    \/ ThrowStatement
    \/ ScriptEnd
    \/ WorkerPanic
    \/ Join
    \/ ReadUrl
    \/ ReadTitle

Spec == Init /\ [][Next]_vars

(***************************************************************************)
(* Claims about run_script                                                 *)
(***************************************************************************)
\* the arguments of the statements of kind cap that returned, in call order
ArgsOfCompleted(cap) ==
    LET done == SelectSeq(calls, LAMBDA c : c.cap = cap /\ ~c.threw)
    IN  [i \in 1..Len(done) |-> done[i].arg]

\* the number of page primitives invoked before statement i started
PrimsBefore(i) == IF i = 1 THEN 0 ELSE calls[i - 1].prims

\* C7: every invocation of run_script ends in a returned ScriptResult,
\* never in an error handed to the caller.
C7_AlwaysScriptResult == pc = "done" => ret.kind = "Ok"

StaleIn(sel, table) ==
    \E t \in TokensOf(sel) : ~table.some \/ t \notin DOMAIN table.val

C10_MalformedRefThrows ==
    \A i \in 1..Len(calls) :
        (/\ calls[i].cap \in SelectorCaps
         /\ LooksLikeRef(calls[i].arg)
         /\ TokensOf(calls[i].arg) = {}) =>
            /\ calls[i].threw
            /\ calls[i].prims = PrimsBefore(i)

\* the statements i of the script that are snapshots that returned
SnapshotsTaken == {i \in 1..Len(calls) : calls[i].cap = "snapshot" /\ ~calls[i].threw}

\* C11: after a successful page.snapshot() the table in flight is exactly
\* that snapshot's table: the next statement resolves against it alone, and
\* a token only the previous table held is stale.
C11_SnapshotReplacesTable ==
    \A i \in SnapshotsTaken :
        /\ (i = Len(calls) /\ pc \in {"boa", "joined", "url", "title"})
               => snapshot_refs = Some(calls[i].arg)
        /\ i < Len(calls) =>
               /\ calls[i + 1].table = Some(calls[i].arg)
               /\ (/\ calls[i + 1].cap \in SelectorCaps
                   /\ \E t \in TokensOf(calls[i + 1].arg) : t \notin DOMAIN calls[i].arg)
                      => /\ calls[i + 1].threw
                         /\ result.kind = "Err"
                         /\ result.val.kind = "RefNotFound"

C11_Witness ==
    /\ Len(calls) = 2
    /\ 1 \in SnapshotsTaken
    /\ calls[1].table.some
    /\ E0 \in DOMAIN calls[1].table.val
    /\ E0 \notin DOMAIN calls[1].arg
    /\ calls[1].arg # <<>>
    /\ calls[2].cap = "getText"
    /\ calls[2].arg = RefE0
    /\ calls[2].threw

\* C12: run_script returns a table if and only if the script took at least
\* one successful snapshot, and then the table of the most recent one.
C12_TableIffSnapshot ==
    (pc = "done" /\ ret.kind = "Ok") =>
        /\ ret.val.snapshot_refs.some <=> SnapshotsTaken # {}
        /\ SnapshotsTaken # {} =>
               ret.val.snapshot_refs =
                   Some(calls[CHOOSE i \in SnapshotsTaken :
                                  \A j \in SnapshotsTaken : j <= i].arg)

(***************************************************************************)
(* server.rs: the tool layer and its stored ReferenceTable.  Tool calls    *)
(* run as concurrent tasks; one action is one stretch of a handler between *)
(* two awaits on the page or on the snapshot_refs lock.                    *)
(***************************************************************************)
MaxToolCalls == 2
TaskIds == {1, 2}
Doms == 0..2

\* snapshot_with_refs on the document the page shows: document 0 has no
\* interactive element, documents 1 and 2 issue e0 for different elements
DocTable(d) ==
    CASE d = 0 -> <<>>
      [] d = 1 -> [t \in {E0} |-> <<"#", "a">>]
      [] OTHER -> [t \in {E0, E7} |-> IF t = E0 THEN <<"#", "b">> ELSE <<"#", "c">>]

RefE7 == RefEq \o E7
ToolSelectors == {RefE0, RefE7, RefMalformed, CssA}

is_empty(table) == DOMAIN table = {}

\* mutant: the new table is merged into the stored one
set_snapshot_refs_extends(table) == stored_refs' = table @@ stored_refs

\* server.rs:145-147 — *self.snapshot_refs.lock().await = refs
set_snapshot_refs(table) == stored_refs' = table

\* server.rs:141-143 — self.snapshot_refs.lock().await.clear()
clear_snapshot_refs == stored_refs' = <<>>

\* A task's record.  Besides the handler's locals it keeps a history of the
\* call for the properties: absent (the token the caller gave that the
\* store did not hold), named (the token the error names), invoked (the
\* page primitive ran), auto (how auto_snapshot ended), snap_old and
\* script_old (the table held was taken before the other task's clearing
\* call began) and wrote_old (the store's latest write was such a table and
\* this task made it).
IdleTask ==
    [tool |-> "none", pc |-> "idle", n |-> 0, sel |-> <<>>, cleared |-> FALSE,
     current_refs |-> None, script_refs |-> None, took |-> FALSE,
     snap |-> None, after |-> "none", ret |-> "pending", seen |-> <<>>,
     absent |-> None, named |-> None, invoked |-> FALSE, auto |-> "none",
     snap_old |-> FALSE, script_old |-> FALSE, wrote_old |-> FALSE]

InitServer ==
    /\ stored_refs = <<>>
    /\ dom \in Doms
    /\ tasks = [t \in TaskIds |-> IdleTask]
    /\ InitOutsideServer

\* tool calls that have arrived so far
CallsMade == tasks[1].n + tasks[2].n

CanCall(t) == tasks[t].pc \in {"idle", "returned"} /\ CallsMade < MaxToolCalls

Begin(t, tool, at) ==
    [IdleTask EXCEPT !.tool = tool, !.pc = at, !.n = tasks[t].n + 1]

\* the handler returns: the caller sees ret while the store holds seen
Return(task, kind, store) ==
    [task EXCEPT !.pc = "returned", !.ret = kind, !.seen = store]

\* history: task t has just written a table to the store
Wrote(ts, t, old) ==
    [u \in TaskIds |-> [ts[u] EXCEPT !.wrote_old = (u = t) /\ old]]

\* history: a clearing call begins; every table another task holds was
\* taken before it, and the store holds nothing
MarkOld(task) ==
    [task EXCEPT !.snap_old = task.pc \notin {"idle", "returned"} /\ task.snap.some,
                 !.script_old = /\ task.pc \notin {"idle", "returned"}
                                /\ (task.script_refs.some \/ task.current_refs.some),
                 !.wrote_old = FALSE]

\* snapshot: the call arrives
CallSnapshot(t) ==
    /\ CanCall(t)
    /\ tasks' = [tasks EXCEPT ![t] = Begin(t, "snapshot", "page")]
    /\ UNCHANGED <<stored_refs, dom, outsideServer>>

\* with_page(snapshot_with_refs).await?
SnapshotWithPage(t) ==
    /\ tasks[t].tool = "snapshot" /\ tasks[t].pc = "page"
    /\ \/ tasks' = [tasks EXCEPT ![t].snap = Some(DocTable(dom)),
                                 ![t].snap_old = FALSE, ![t].pc = "store"]
       \/ tasks' = [tasks EXCEPT ![t] = Return(@, "Err", stored_refs)]
    /\ UNCHANGED <<stored_refs, dom, outsideServer>>

\* set_snapshot_refs(result.refs); text_result(result.text)
SnapshotSetRefs(t) ==
    /\ tasks[t].tool = "snapshot" /\ tasks[t].pc = "store"
    /\ set_snapshot_refs(tasks[t].snap.val)
    /\ tasks' = Wrote([tasks EXCEPT ![t] = Return(@, "Ok", stored_refs')], t,
                      tasks[t].snap_old /\ ~is_empty(stored_refs'))
    /\ UNCHANGED <<dom, outsideServer>>

\* auto_snapshot: with_page(snapshot_with_refs); Err(_) => "Snapshot unavailable"
AutoSnapshotPage(t) ==
    /\ tasks[t].pc = "auto_page"
    /\ \/ tasks' = [tasks EXCEPT ![t].snap = Some(DocTable(dom)),
                                 ![t].snap_old = FALSE, ![t].pc = "auto_store"]
       \/ /\ tasks[t].after # "check_empty"
          /\ tasks' = [tasks EXCEPT ![t] =
                          Return([@ EXCEPT !.auto = "failed"], tasks[t].after,
                                 stored_refs)]
       \/ /\ tasks[t].after = "check_empty"
          /\ tasks' = [tasks EXCEPT ![t].snap = None, ![t].auto = "failed",
                                    ![t].pc = "check_empty"]
    /\ UNCHANGED <<stored_refs, dom, outsideServer>>

\* auto_snapshot: Ok(snap) => set_snapshot_refs(snap.refs)
AutoSnapshotSetRefs(t) ==
    /\ tasks[t].pc = "auto_store"
    /\ set_snapshot_refs(tasks[t].snap.val)
    /\ tasks' = Wrote([tasks EXCEPT ![t] =
                          IF tasks[t].after = "check_empty"
                          THEN [@ EXCEPT !.auto = "ok", !.pc = "check_empty"]
                          ELSE Return([@ EXCEPT !.auto = "ok"], tasks[t].after,
                                      stored_refs')], t,
                      tasks[t].snap_old /\ ~is_empty(stored_refs'))
    /\ UNCHANGED <<dom, outsideServer>>

\* run_script: current_refs = if r.is_empty() { None } else { Some(r.clone()) }
CallRunScript(t) ==
    /\ CanCall(t)
    /\ tasks' = [tasks EXCEPT ![t] =
                    [Begin(t, "run_script", "page") EXCEPT
                        !.current_refs = IF is_empty(stored_refs) THEN None
                                         ELSE Some(stored_refs)]]
    /\ UNCHANGED <<stored_refs, dom, outsideServer>>

\* with_page(script::run_script(.., current_refs)).await?: the script may
\* load another document, may take a snapshot, and may change the page after
RunScriptWithPage(t) ==
    /\ tasks[t].tool = "run_script" /\ tasks[t].pc = "page"
    /\ \/ \E d \in Doms, d2 \in Doms :
              /\ dom' = d2
              /\ \/ tasks' = [tasks EXCEPT ![t].script_refs = Some(DocTable(d)),
                                           ![t].script_old = FALSE,
                                           ![t].took = TRUE,
                                           ![t].after = "check_empty",
                                           ![t].pc = "auto_page"]
                 \/ /\ d = d2
                    /\ tasks' = [tasks EXCEPT ![t].script_refs = tasks[t].current_refs,
                                              ![t].after = "check_empty",
                                              ![t].pc = "auto_page"]
       \/ /\ tasks' = [tasks EXCEPT ![t] = Return(@, "Err", stored_refs)]
          /\ UNCHANGED dom
    /\ UNCHANGED <<stored_refs, outsideServer>>

\* if self.snapshot_refs.lock().await.is_empty() { if let Some(refs) = script_refs
RunScriptCheckEmpty(t) ==
    /\ tasks[t].tool = "run_script" /\ tasks[t].pc = "check_empty"
    /\ tasks' = [tasks EXCEPT ![t] =
                    IF is_empty(stored_refs) /\ tasks[t].script_refs.some
                    THEN [@ EXCEPT !.pc = "set_script_refs"]
                    ELSE Return(@, "Ok", stored_refs)]
    /\ UNCHANGED <<stored_refs, dom, outsideServer>>

\* self.set_snapshot_refs(refs).await
RunScriptSetRefs(t) ==
    /\ tasks[t].tool = "run_script" /\ tasks[t].pc = "set_script_refs"
    /\ set_snapshot_refs(tasks[t].script_refs.val)
    /\ tasks' = Wrote([tasks EXCEPT ![t] = Return(@, "Ok", stored_refs')], t,
                      tasks[t].script_old /\ ~is_empty(stored_refs'))
    /\ UNCHANGED <<dom, outsideServer>>

\* navigate: self.clear_snapshot_refs().await comes first
CallNavigate(t) ==
    /\ CanCall(t)
    /\ clear_snapshot_refs
    /\ tasks' = [u \in TaskIds |->
                    IF u = t
                    THEN [Begin(t, "navigate", "page") EXCEPT !.cleared = TRUE]
                    ELSE MarkOld(tasks[u])]
    /\ UNCHANGED <<dom, outsideServer>>

\* with_page(navigation::navigate).await?, then auto_snapshot
NavigateWithPage(t) ==
    /\ tasks[t].tool = "navigate" /\ tasks[t].pc = "page"
    /\ \/ /\ dom' \in Doms
          /\ tasks' = [tasks EXCEPT ![t].after = "Ok", ![t].pc = "auto_page"]
       \/ /\ tasks' = [tasks EXCEPT ![t] = Return(@, "Err", stored_refs)]
          /\ UNCHANGED dom
    /\ UNCHANGED <<stored_refs, outsideServer>>

\* the reference token a selector is, in one of its three written forms
WrittenToken(sel) ==
    IF \E k \in {E0, E7} : trim(sel) \in {k, RefEq \o k, BracketRefEq \o k \o CloseBracket}
    THEN Some(CHOOSE k \in {E0, E7} :
                  trim(sel) \in {k, RefEq \o k, BracketRefEq \o k \o CloseBracket})
    ELSE None

\* history: the call was given a well-formed token the store does not hold
AbsentToken(sel, table) ==
    IF WrittenToken(sel).some /\ WrittenToken(sel).val \notin DOMAIN table
    THEN WrittenToken(sel) ELSE None

\* mutant: a token the store does not hold goes to the page as written
CallClick_passes_stale(t) ==
    /\ CanCall(t)
    /\ \E sel \in ToolSelectors :
           LET r == resolve_selector(sel, stored_refs)
               task == [Begin(t, "click", "page") EXCEPT
                           !.sel = sel, !.absent = AbsentToken(sel, stored_refs)]
           IN  tasks' = [tasks EXCEPT ![t] =
                   CASE r.kind \in {"Ok", "NotFound"} -> task
                     [] OTHER -> Return(task, "Err", stored_refs)]
    /\ UNCHANGED <<stored_refs, dom, outsideServer>>

\* click: params.selector = self.normalize_selector_with_recovery(..).await?
\* NotFound(ref_id) goes to auto_snapshot and then fails with
\* "Ref '{ref_id}' not found"; any other error fails at once.
CallClick(t) ==
    /\ CanCall(t)
    /\ \E sel \in ToolSelectors :
           LET r == resolve_selector(sel, stored_refs)
               task == [Begin(t, "click", "page") EXCEPT
                           !.sel = sel, !.absent = AbsentToken(sel, stored_refs)]
           IN  tasks' = [tasks EXCEPT ![t] =
                   CASE r.kind = "Ok" -> task
                     [] r.kind = "NotFound" ->
                            [task EXCEPT !.named = Some(r.val), !.after = "Err",
                                         !.pc = "auto_page"]
                     [] OTHER -> Return(task, "Err", stored_refs)]
    /\ UNCHANGED <<stored_refs, dom, outsideServer>>

\* with_page(interaction::do_click).await?, then auto_snapshot; the click
\* may make the page show another document
ClickWithPage(t) ==
    /\ tasks[t].tool = "click" /\ tasks[t].pc = "page"
    /\ \/ /\ dom' \in Doms
          /\ tasks' = [tasks EXCEPT ![t].invoked = TRUE, ![t].after = "Ok",
                                    ![t].pc = "auto_page"]
       \/ /\ tasks' = [tasks EXCEPT ![t] =
                          Return([@ EXCEPT !.invoked = TRUE], "Err", stored_refs)]
          /\ UNCHANGED dom
    /\ UNCHANGED <<stored_refs, outsideServer>>

NextServer ==
    \E t \in TaskIds :
        \/ CallSnapshot(t)
        \/ SnapshotWithPage(t)
        \/ SnapshotSetRefs(t)
        \/ AutoSnapshotPage(t)
        \/ AutoSnapshotSetRefs(t)
        \/ CallRunScript(t)
        \/ RunScriptWithPage(t)
        \/ RunScriptCheckEmpty(t)
        \/ RunScriptSetRefs(t)
        \/ CallNavigate(t)
        \/ NavigateWithPage(t)
        \/ CallClick(t)
        \/ ClickWithPage(t)

SpecServer == InitServer /\ [][NextServer]_vars

\* C13: when a run_script call in which the script took a snapshot returns,
\* the stored table is the table the script returned; when a snapshot call
\* returns, the stored table is that snapshot's table.
C13_StoredIsReturned ==
    \A t \in TaskIds :
        (tasks[t].pc = "returned" /\ tasks[t].ret = "Ok") =>
            /\ (tasks[t].tool = "run_script" /\ tasks[t].took)
                   => tasks[t].seen = tasks[t].script_refs.val
            /\ tasks[t].tool = "snapshot" => tasks[t].seen = tasks[t].snap.val

(***************************************************************************)
(* browser/pool.rs: the TabPool.  Pages are their target ids; indexes are  *)
(* 0-based as in the code, pages[i + 1] being the Vec's element i.         *)
(***************************************************************************)
MaxTabs == 4
TargetIds == 1..MaxTabs

\* what a TabPool operation gave its caller: a page, no page, a bool, a panic
PoolRet(kind, page) == [kind |-> kind, page |-> page]
Panic == PoolRet("panic", 0)

\* pages.iter().position(|p| p.target_id() == target_id)
position(ps, target_id) ==
    IF \E i \in 1..Len(ps) : ps[i] = target_id
    THEN Some((CHOOSE i \in 1..Len(ps) :
                   /\ ps[i] = target_id
                   /\ \A j \in 1..(i - 1) : ps[j] # target_id) - 1)
    ELSE None

\* Vec::remove(pos)
remove(ps, pos) == [i \in 1..(Len(ps) - 1) |-> IF i <= pos THEN ps[i] ELSE ps[i + 1]]

\* &self.pages[self.active_index]: indexing out of bounds panics
active_page(ps, active) ==
    IF active < Len(ps) THEN PoolRet("page", ps[active + 1]) ELSE Panic

add_page(ps, active, page) ==
    [pages |-> Append(ps, page), active_index |-> Len(ps), ret |-> PoolRet("unit", 0)]

select_page(ps, active, index) ==
    IF index < Len(ps)
    THEN [pages |-> ps, active_index |-> index, ret |-> PoolRet("page", ps[index + 1])]
    ELSE [pages |-> ps, active_index |-> active, ret |-> PoolRet("none", 0)]

select_by_target_id(ps, active, target_id) ==
    LET pos == position(ps, target_id)
    IN  IF pos.some
        THEN [pages |-> ps, active_index |-> pos.val, ret |-> PoolRet("page", target_id)]
        ELSE [pages |-> ps, active_index |-> active, ret |-> PoolRet("none", 0)]

remove_page(ps, active, target_id) ==
    LET pos == position(ps, target_id)
    IN  IF pos.some
        THEN LET rest == remove(ps, pos.val)
             IN  [pages |-> rest,
                  active_index |-> IF active >= Len(rest) /\ rest # <<>>
                                   THEN Len(rest) - 1 ELSE active,
                  ret |-> PoolRet("true", 0)]
        ELSE [pages |-> ps, active_index |-> active, ret |-> PoolRet("false", 0)]

\* tools/page.rs close_tab: the named tab, or the active one when none is named
close_tab(ps, active, tab_id) ==
    IF tab_id.some
    THEN [remove_page(ps, active, tab_id.val) EXCEPT !.ret = PoolRet("true", 0)]
    ELSE LET page == active_page(ps, active)
         IN  IF page = Panic
             THEN [pages |-> ps, active_index |-> active, ret |-> Panic]
             ELSE [remove_page(ps, active, page.page) EXCEPT !.ret = PoolRet("true", 0)]

InitPool ==
    /\ pages = <<1>>
    /\ active_index = 0
    /\ next_tab = 2
    /\ pool_ret = PoolRet("pending", 0)
    /\ InitOutsidePool

PoolBecomes(pool) ==
    /\ pages' = pool.pages
    /\ active_index' = pool.active_index
    /\ pool_ret' = pool.ret

\* the call's task unwinds when the pool panicked under it; the pool is
\* behind a tokio Mutex, which the unwinding releases without poisoning
AddPage ==
    /\ next_tab <= MaxTabs
    /\ PoolBecomes(add_page(pages, active_index, next_tab))
    /\ next_tab' = next_tab + 1
    /\ UNCHANGED outsidePool

SelectPage ==
    /\ \E index \in 0..MaxTabs : PoolBecomes(select_page(pages, active_index, index))
    /\ UNCHANGED <<next_tab, outsidePool>>

SelectByTargetId ==
    /\ \E id \in TargetIds : PoolBecomes(select_by_target_id(pages, active_index, id))
    /\ UNCHANGED <<next_tab, outsidePool>>

RemovePage ==
    /\ \E id \in TargetIds : PoolBecomes(remove_page(pages, active_index, id))
    /\ UNCHANGED <<next_tab, outsidePool>>

CloseTab ==
    /\ \E tab_id \in {None} \cup {Some(id) : id \in TargetIds} :
           PoolBecomes(close_tab(pages, active_index, tab_id))
    /\ UNCHANGED <<next_tab, outsidePool>>

ActivePage ==
    /\ pool_ret' = active_page(pages, active_index)
    /\ UNCHANGED <<pages, active_index, next_tab, outsidePool>>

NextPool ==
    \/ AddPage
    \/ SelectPage
    \/ SelectByTargetId
    \/ RemovePage
    \/ CloseTab
    \/ ActivePage

SpecPool == InitPool /\ [][NextPool]_vars

\* C14: after any sequence of TabPool operations the active index designates
\* an existing page, so active_page() is defined.
C14_ActiveIndexInRange ==
    /\ active_index < Len(pages)
    /\ pool_ret # Panic

(***************************************************************************)
(* interaction/click.rs, tools/interaction.rs: how a selector finds its    *)
(* element.  A page is the sequence of its elements in document order,     *)
(* each with the CSS selector that names it and the text of its text node. *)
(***************************************************************************)
MaxText == 3
TextChars == {"O", "o", "K", "k", " "}
Texts == UNION {[1..n -> TextChars] : n \in 0..MaxText}
Phrases == UNION {[1..n -> TextChars \ {" "}] : n \in 1..2}

CssB == <<"#", "b">>
Element(css, text) == [css |-> css, text |-> text]
ClickPages ==
    {<<Element(CssA, t)>> : t \in Texts}
        \cup {<<Element(CssA, t1), Element(CssB, t2)>> :
                  t1 \in {<<"o", "k">>, <<"O">>}, t2 \in {<<"O", "K">>, <<" ", "o", "k">>}}

\* String.prototype.toLowerCase, on the letters of TextChars
toLowerCase(s) ==
    [i \in 1..Len(s) |-> CASE s[i] = "O" -> "o" [] s[i] = "K" -> "k" [] OTHER -> s[i]]

\* the first element of the page that satisfies Hit, or null
FirstElement(page, Hit(_)) ==
    LET hits == {i \in 1..Len(page) : Hit(page[i])}
    IN  IF hits = {} THEN None ELSE Some(CHOOSE i \in hits : \A j \in hits : i <= j)

\* the element the generated expression evaluates to on the page: Css is
\* document.querySelector, Text walks the text nodes in document order
selector_to_js(sel, selector_type, page) ==
    LET css_hit(el) == el.css = sel
        text_hit(el) == contains(trim(el.text), sel)
    IN  IF selector_type = "Css" THEN FirstElement(page, css_hit)
        ELSE FirstElement(page, text_hit)

Clicked(i) == [kind |-> "Ok", el |-> i]
ElementNotFound == [kind |-> "Err", el |-> 0]

\* the check script returns { error: 'Element not found' } when el is null
hybrid_click(page, sel, selector_type) ==
    LET el == selector_to_js(sel, selector_type, page)
    IN  IF el.some THEN Clicked(el.val) ELSE ElementNotFound

do_click(page, sel, selector_type) ==
    LET n == normalize_selector_type(sel, selector_type)
    IN  hybrid_click(page, n.selector, n.selector_type)

InitClick ==
    /\ args \in [selector : Phrases \cup {CssA, CssB},
                 selector_type : {"Css", "Text"},
                 page : ClickPages]
    /\ out = Pending
    /\ InitOutsideCall

DoClick ==
    /\ out = Pending
    /\ out' = do_click(args.page, args.selector, args.selector_type)
    /\ UNCHANGED <<args, outsideCall>>

NextClick == DoClick

SpecClick == InitClick /\ [][NextClick]_vars

\* the elements whose lower-cased trimmed text contains lower-cased s
MatchIgnoringCase(page, s) ==
    {i \in 1..Len(page) :
         \E k \in 0..Len(page[i].text) :
             \E m \in k..Len(page[i].text) :
                 /\ toLowerCase(SubSeq(page[i].text, k + 1, m)) = toLowerCase(s)
                 /\ \E a \in 1..(k + 1), b \in m..Len(page[i].text) :
                        /\ ~is_whitespace(page[i].text[a])
                        /\ ~is_whitespace(page[i].text[b])}

\* C15: a text-kind selector matches an element whenever the element's
\* lower-cased trimmed text contains the lower-cased selector; do_click then
\* clicks the first such element.
C15_TextMatchIgnoresCase ==
    (out.kind # "pending" /\ args.selector_type = "Text") =>
        LET hits == MatchIgnoringCase(args.page, args.selector)
        IN  hits # {} =>
                /\ out.kind = "Ok"
                /\ out.el \in hits
                /\ \A j \in hits : out.el <= j

(***************************************************************************)
(* Waiting for the page: interaction/wait.rs wait_for_selector, the tools  *)
(* that use it or do not (tools/interaction.rs), tools/dom.rs wait_for and *)
(* the script capabilities waitFor and waitForNetworkIdle.  Time passes    *)
(* only in the sleeps; a page evaluation takes no time but may fail.       *)
(***************************************************************************)
AutoWaitTimeout == 5000
PollInterval == 100
WaitTimeouts == {0, 250}
IdleTimeouts == {300}
IdleDwells == {100, 200}

WaitRet(kind, val, err) == [kind |-> kind, val |-> val, err |-> err]

WaitCall(op, timeout, idle) ==
    [op |-> op, timeout |-> timeout, idle |-> idle, pc |-> "sample",
     start |-> 0, elapsed |-> 0, idle_start |-> None,
     absent_at_call |-> ~page_has, failed |-> FALSE, observed |-> FALSE,
     samples |-> <<>>]

InitWait ==
    /\ now = 0
    /\ page_has \in BOOLEAN
    /\ pending \in {0, 1}
    /\ wait \in {WaitCall(op, 0, 0) : op \in {"click", "type_text"}}
           \cup {WaitCall("fill", AutoWaitTimeout, 0)}
           \cup {WaitCall(op, t, 0) : op \in {"wait_for", "waitFor"}, t \in WaitTimeouts}
           \cup {WaitCall("waitForNetworkIdle", t, i) : t \in IdleTimeouts, i \in IdleDwells}
    /\ wait_ret = WaitRet("pending", FALSE, "none")
    /\ InitOutsideWait

\* tokio::time::sleep(interval): meanwhile the element may appear and
\* requests may start or finish
Sleeps ==
    /\ now' = now + PollInterval
    /\ page_has' \in {page_has, TRUE}
    /\ pending' \in {0, 1}

\* do_click -> hybrid_click: the check script runs once, at once
ClickNow ==
    /\ wait.op = "click" /\ wait.pc = "sample"
    /\ \E ok \in BOOLEAN :
           /\ wait_ret' = IF ~ok THEN WaitRet("Err", FALSE, "transport")
                          ELSE IF page_has THEN WaitRet("Ok", TRUE, "none")
                          ELSE WaitRet("Err", FALSE, "not_found")
           /\ wait' = [wait EXCEPT !.pc = "returned", !.failed = ~ok]
    /\ UNCHANGED <<now, page_has, pending, outsideWait>>

\* type_text -> keyboard::type_text: the focus script runs once, at once;
\* its 'Element not found' throw and a transport failure are both the
\* evaluation's Err
TypeTextNow ==
    /\ wait.op = "type_text" /\ wait.pc = "sample"
    /\ \E ok \in BOOLEAN :
           /\ wait_ret' = IF ~ok THEN WaitRet("Err", FALSE, "transport")
                          ELSE IF page_has THEN WaitRet("Ok", TRUE, "none")
                          ELSE WaitRet("Err", FALSE, "not_found")
           /\ wait' = [wait EXCEPT !.pc = "returned", !.failed = ~ok]
    /\ UNCHANGED <<now, page_has, pending, outsideWait>>

\* fill -> wait_for_selector(.., 5000): one turn of the loop up to the sleep
FillSample ==
    /\ wait.op = "fill" /\ wait.pc = "sample"
    /\ \E ok \in BOOLEAN :
           LET found == ok /\ page_has
               w == [wait EXCEPT !.failed = @ \/ ~ok,
                                 !.observed = @ \/ (found /\ wait.elapsed <= wait.timeout)]
           IN  IF found
               THEN /\ wait' = [w EXCEPT !.pc = "act"]
                    /\ UNCHANGED wait_ret
               ELSE IF wait.elapsed >= wait.timeout
               THEN /\ wait' = [w EXCEPT !.pc = "returned"]
                    /\ wait_ret' = WaitRet("Err", FALSE, "timeout")
               ELSE /\ wait' = [w EXCEPT !.pc = "sleep"]
                    /\ UNCHANGED wait_ret
    /\ UNCHANGED <<now, page_has, pending, outsideWait>>

\* sleep(interval); elapsed += interval
FillSleep ==
    /\ wait.op = "fill" /\ wait.pc = "sleep"
    /\ Sleeps
    /\ wait' = [wait EXCEPT !.pc = "sample", !.elapsed = @ + PollInterval]
    /\ UNCHANGED <<wait_ret, outsideWait>>

\* fill: the element was found, the fill script runs
FillAct ==
    /\ wait.op = "fill" /\ wait.pc = "act"
    /\ \E ok \in BOOLEAN :
           /\ wait_ret' = IF ok THEN WaitRet("Ok", TRUE, "none")
                          ELSE WaitRet("Err", FALSE, "transport")
           /\ wait' = [wait EXCEPT !.pc = "returned", !.failed = @ \/ ~ok]
    /\ UNCHANGED <<now, page_has, pending, outsideWait>>

\* dom::wait_for, called by the wait_for tool and by the waitFor capability
\* (JsValue::from(found)): one turn of the loop up to the sleep
WaitForSample ==
    /\ wait.op \in {"wait_for", "waitFor"} /\ wait.pc = "sample"
    /\ \E ok \in BOOLEAN :
           LET res == ok /\ page_has
               w == [wait EXCEPT !.failed = @ \/ ~ok,
                                 !.observed = @ \/ (res /\ now - wait.start <= wait.timeout)]
           IN  IF res
               THEN /\ wait' = [w EXCEPT !.pc = "returned"]
                    /\ wait_ret' = WaitRet("bool", TRUE, "none")
               ELSE IF now - wait.start >= wait.timeout
               THEN /\ wait' = [w EXCEPT !.pc = "returned"]
                    /\ wait_ret' = WaitRet("bool", FALSE, "none")
               ELSE /\ wait' = [w EXCEPT !.pc = "sleep"]
                    /\ UNCHANGED wait_ret
    /\ UNCHANGED <<now, page_has, pending, outsideWait>>

WaitForSleep ==
    /\ wait.op \in {"wait_for", "waitFor"} /\ wait.pc = "sleep"
    /\ Sleeps
    /\ wait' = [wait EXCEPT !.pc = "sample"]
    /\ UNCHANGED <<wait_ret, outsideWait>>

\* mutant: a non-zero sample does not restart the dwell
IdleSample_keeps_dwell ==
    /\ wait.op = "waitForNetworkIdle" /\ wait.pc = "sample"
    /\ LET dwelt == /\ pending = 0
                    /\ wait.idle_start.some
                    /\ now - wait.idle_start.val >= wait.idle
           sampled == [wait EXCEPT !.samples = Append(@, [t |-> now, pending |-> pending])]
       IN  IF now - wait.start > wait.timeout
           THEN /\ wait' = [sampled EXCEPT !.pc = "returned"]
                /\ wait_ret' = WaitRet("string", FALSE, "none")
           ELSE IF dwelt
           THEN /\ wait' = [sampled EXCEPT !.pc = "returned", !.observed = TRUE]
                /\ wait_ret' = WaitRet("string", FALSE, "none")
           ELSE /\ wait' = [sampled EXCEPT !.pc = "sleep",
                                           !.idle_start = IF @.some THEN @
                                                          ELSE IF pending = 0 THEN Some(now)
                                                          ELSE None]
                /\ UNCHANGED wait_ret
    /\ UNCHANGED <<now, page_has, pending, outsideWait>>

\* make_wait_for_network_idle: one turn of the loop up to the sleep; the
\* capability returns the string "Network idle" on either way out.  samples
\* records what each turn read.
IdleSample ==
    /\ wait.op = "waitForNetworkIdle" /\ wait.pc = "sample"
    /\ LET dwelt == /\ pending = 0
                    /\ wait.idle_start.some
                    /\ now - wait.idle_start.val >= wait.idle
           sampled == [wait EXCEPT !.samples = Append(@, [t |-> now, pending |-> pending])]
       IN  IF now - wait.start > wait.timeout
           THEN /\ wait' = [sampled EXCEPT !.pc = "returned"]
                /\ wait_ret' = WaitRet("string", FALSE, "none")
           ELSE IF dwelt
           THEN /\ wait' = [sampled EXCEPT !.pc = "returned", !.observed = TRUE]
                /\ wait_ret' = WaitRet("string", FALSE, "none")
           ELSE /\ wait' = [sampled EXCEPT !.pc = "sleep",
                                           !.idle_start = IF pending # 0 THEN None
                                                          ELSE IF @.some THEN @
                                                          ELSE Some(now)]
                /\ UNCHANGED wait_ret
    /\ UNCHANGED <<now, page_has, pending, outsideWait>>

IdleSleep ==
    /\ wait.op = "waitForNetworkIdle" /\ wait.pc = "sleep"
    /\ Sleeps
    /\ wait' = [wait EXCEPT !.pc = "sample"]
    /\ UNCHANGED <<wait_ret, outsideWait>>

NextWait ==
    \/ ClickNow
    \/ TypeTextNow
    \/ FillSample
    \/ FillSleep
    \/ FillAct
    \/ WaitForSample
    \/ WaitForSleep
    \/ IdleSample
    \/ IdleSleep

SpecWait == InitWait /\ [][NextWait]_vars

\* C16: click, type_text and fill, called while the element is absent, fail
\* for want of the element only once the 5 second deadline has passed with
\* the element still absent, and succeed if it appeared before.
C16_AutoWait ==
    (/\ wait.op \in {"click", "type_text", "fill"}
     /\ wait.absent_at_call
     /\ wait.pc = "returned"
     /\ ~wait.failed) =>
        \/ wait_ret.kind = "Ok" /\ page_has
        \/ /\ wait_ret.kind = "Err"
           /\ now >= AutoWaitTimeout
           /\ ~page_has

\* C19: wait_for, waitFor and waitForNetworkIdle return a boolean, true iff
\* the awaited condition was observed at a sample made by the deadline.
C19_WaitsReturnBoolean ==
    (/\ wait.op \in {"wait_for", "waitFor", "waitForNetworkIdle"}
     /\ wait.pc = "returned"
     /\ ~wait.failed) =>
        /\ wait_ret.kind = "bool"
        /\ wait_ret.val <=> wait.observed

\* C20: a page evaluation that fails during a poll-style wait reaches the
\* caller as an error, never as the boolean outcome.
C20_TransportFailureRaised ==
    (/\ wait.op \in {"wait_for", "waitFor"}
     /\ wait.pc = "returned"
     /\ wait.failed) =>
        wait_ret.kind = "Err"

(***************************************************************************)
(* selectors/mod.rs: normalize_selector_type applied to one selector       *)
(***************************************************************************)
MaxPieces == 5
SelectorPieces == {HasTextOpen, <<"\"">>, <<"'">>, <<"a">>, <<")">>}

RECURSIVE concat(_)
concat(pieces) == IF pieces = <<>> THEN <<>> ELSE Head(pieces) \o concat(Tail(pieces))

NormalizeSelectors ==
    {concat(ps) : ps \in UNION {[1..n -> SelectorPieces] : n \in 0..MaxPieces}}

InitNormalize ==
    /\ args \in [selector : NormalizeSelectors, selector_type : {"Css", "Text", "Xpath"}]
    /\ out = Pending
    /\ InitOutsideCall

Normalize ==
    /\ out = Pending
    /\ out' = normalize_selector_type(args.selector, args.selector_type)
    /\ UNCHANGED <<args, outsideCall>>

NextNormalize == Normalize

SpecNormalize == InitNormalize /\ [][NextNormalize]_vars

\* the 1-based positions where `:has-text(` begins in s
HasTextAt(s) ==
    {i \in 1..Len(s) : /\ i + 9 <= Len(s)
                       /\ [k \in 1..10 |-> s[i + k - 1]] = HasTextOpen}

\* the occurrence at i is followed by a quote that is closed later
QuotedPhraseAt(s, i) ==
    /\ i + 10 <= Len(s)
    /\ s[i + 10] \in {"\"", "'"}
    /\ \E j \in (i + 11)..Len(s) : s[j] = s[i + 10]

\* the text between the quote after the occurrence at i and its next twin
PhraseAt(s, i) ==
    LET close == CHOOSE j \in (i + 11)..Len(s) :
                     /\ s[j] = s[i + 10]
                     /\ \A k \in (i + 11)..(j - 1) : s[k] # s[i + 10]
    IN  [k \in 1..(close - i - 11) |-> s[i + 10 + k]]

Unchanged == out.selector = args.selector /\ out.selector_type = args.selector_type

\* C17 as stated: the rewrite happens exactly when the kind is Css and the
\* selector contains `:has-text(` followed by a quoted, closed phrase.
C17_RewritesIffContainsQuoted ==
    out # Pending =>
        LET quoted == {i \in HasTextAt(args.selector) : QuotedPhraseAt(args.selector, i)}
        IN  IF args.selector_type = "Css" /\ quoted # {}
            THEN /\ out.selector_type = "Text"
                 /\ \E i \in quoted : out.selector = PhraseAt(args.selector, i)
            ELSE Unchanged

\* C17 amended: only the first `:has-text(` counts.  The rewrite happens
\* exactly when the kind is Css and the first occurrence is followed by a
\* quoted, closed phrase; the phrase runs to the next quote of the same kind.
C17_RewritesIffFirstQuoted ==
    out # Pending =>
        LET at == HasTextAt(args.selector)
            first == CHOOSE i \in at : \A j \in at : i <= j
        IN  IF /\ args.selector_type = "Css"
               /\ at # {}
               /\ QuotedPhraseAt(args.selector, first)
            THEN /\ out.selector_type = "Text"
                 /\ out.selector = PhraseAt(args.selector, first)
            ELSE Unchanged

C17_Witness ==
    /\ out # Pending
    /\ args.selector_type = "Css"
    /\ args.selector = HasTextOpen \o <<"'", "a", "'", "'">>
    /\ out.selector_type = "Text"
    /\ out.selector = <<"a">>

(***************************************************************************)
(* tools/script.rs make_js: [ref=eN] in the expression of page.js          *)
(***************************************************************************)
MaxJsPieces == 3
JsPieces ==
    {RefE0, BracketRefEq \o E7 \o CloseBracket, BracketRefEq \o E07 \o CloseBracket,
     BracketRefEq \o <<"e">> \o CloseBracket, RefEq \o E0,
     <<"[">>, <<"]">>, <<"x">>, <<"0">>, <<" ">>}
JsExpressions ==
    {concat(ps) : ps \in UNION {[1..n -> JsPieces] : n \in 0..MaxJsPieces}}

RefOpen == <<"[", "r", "e", "f", "=", "e">>

\* \d+ : the length of the longest run of digits s begins with
RECURSIVE digits(_)
digits(s) == IF s # <<>> /\ is_ascii_digit(Head(s)) THEN 1 + digits(Tail(s)) ELSE 0

\* the regex \[ref=e(\d+)\] anchored at the start of s: the match's length
match_ref(s) ==
    LET n == digits(SubSeq(s, Len(RefOpen) + 1, Len(s)))
        end == Len(RefOpen) + n + 1
    IN  IF starts_with(s, RefOpen) /\ n >= 1 /\ end <= Len(s) /\ s[end] = "]"
        THEN Some(end) ELSE None

\* mutant: an occurrence whose token is absent is deleted
ref_replacement_drops_absent(whole, ref_id, table) ==
    IF ref_id \in DOMAIN table THEN table[ref_id] ELSE <<>>

\* the replace_all closure: refs.get(&ref_id) or caps[0]
ref_replacement(whole, ref_id, table) ==
    IF ref_id \in DOMAIN table THEN table[ref_id] ELSE whole

\* Regex::replace_all: leftmost matches, left to right, replacements not rescanned
RECURSIVE replace_all(_, _)
replace_all(s, table) ==
    IF s = <<>> THEN <<>>
    ELSE LET m == match_ref(s)
         IN  IF m.some
             THEN ref_replacement(SubSeq(s, 1, m.val),
                                  SubSeq(s, Len(RefOpen), m.val - 1), table)
                      \o replace_all(SubSeq(s, m.val + 1, Len(s)), table)
             ELSE <<Head(s)>> \o replace_all(Tail(s), table)

\* the expression make_js hands to execute_js
make_js(expression, srefs) ==
    IF srefs.some THEN replace_all(expression, srefs.val) ELSE expression

InitJs ==
    /\ args \in [expression : JsExpressions,
                 snapshot_refs : {None} \cup {Some(t) : t \in ScriptTables}]
    /\ out = Pending
    /\ InitOutsideCall

Js ==
    /\ out = Pending
    /\ out' = Ok(make_js(args.expression, args.snapshot_refs))
    /\ UNCHANGED <<args, outsideCall>>

NextJs == Js

SpecJs == InitJs /\ [][NextJs]_vars

\* [a, b] is an occurrence of [ref=eN] in s: `[ref=e`, digits, `]`
IsRefOccurrence(s, a, b) ==
    /\ 1 <= a /\ b <= Len(s) /\ b - a >= 7
    /\ [k \in 1..6 |-> s[a + k - 1]] = RefOpen
    /\ \A k \in (a + 6)..(b - 1) : is_ascii_digit(s[k])
    /\ s[b] = "]"

\* what the Ref Resolver makes of the occurrence, the occurrence itself
\* when the resolver does not find its token
Resolved(occurrence, table) ==
    LET r == resolve_selector(occurrence, table)
    IN  IF r.kind = "Ok" THEN r.val ELSE occurrence

\* s from position a on, every occurrence replaced by its resolution
RECURSIVE Rewritten(_, _, _)
Rewritten(s, a, table) ==
    IF a > Len(s) THEN <<>>
    ELSE IF \E b \in a..Len(s) : IsRefOccurrence(s, a, b)
    THEN LET b == CHOOSE e \in a..Len(s) : IsRefOccurrence(s, a, e)
         IN  Resolved(SubSeq(s, a, b), table) \o Rewritten(s, b + 1, table)
    ELSE <<s[a]>> \o Rewritten(s, a + 1, table)

\* C18: page.js sends the expression with every [ref=eN] whose token is in
\* the table in flight replaced by what the Ref Resolver returns for it,
\* every other occurrence and all other text unchanged; with no table in
\* flight the expression is sent as it is.
C18_JsRewritesRefs ==
    out.kind = "Ok" =>
        out.val = IF args.snapshot_refs.some
                  THEN Rewritten(args.expression, 1, args.snapshot_refs.val)
                  ELSE args.expression

C18_Witness ==
    /\ out.kind = "Ok"
    /\ args.snapshot_refs.some
    /\ DOMAIN args.snapshot_refs.val = {E7, E07}
    /\ args.expression = <<"x">> \o RefE0 \o BracketRefEq \o E7 \o CloseBracket
    /\ out.val = <<"x">> \o RefE0 \o SelOf(E7)


(***************************************************************************)
(* main.rs, server.rs: the process from serve() to its return, the shared  *)
(* browser session behind its mutex, and run_script tool calls the service *)
(* handles while main waits.  Every await is a step of its own.            *)
(***************************************************************************)
MaxCaps == 2
RunIds == {1, 2}

IdleRun == [tool |-> "none", pc |-> "idle", caps |-> 0]

InitSession ==
    /\ main = [pc |-> "serving", result |-> "none", took |-> FALSE,
               closed |-> FALSE, cleared |-> FALSE]
    /\ session = [slot |-> "none", lock |-> 0, launched |-> 0, closed |-> 0]
    /\ runs = [t \in RunIds |-> IdleRun]
    /\ stored_refs = <<>>
    /\ InitOutsideSession

\* The runtime polls the spawned handlers until main returns.
Alive == main.pc # "returned"

\* server.rs:590 — the service accepts a run_script request.
RunScriptCalled(t) ==
    /\ main.pc = "serving"
    /\ runs[t].pc = "idle"
    /\ runs' = [runs EXCEPT ![t].tool = "run_script", ![t].pc = "ensure_browser"]
    /\ UNCHANGED <<main, session, stored_refs, outsideSession>>

\* where a call goes once ensure_browser has returned Ok
AfterEnsure(t) == IF runs[t].tool = "new_tab" THEN "session" ELSE "active_page"

\* mutant: the guard is dropped before the launch is awaited
ensure_browser_unlocked(t) ==
    /\ Alive
    /\ runs[t].pc = "ensure_browser"
    /\ session.lock = 0
    /\ IF session.slot = "open"
       THEN runs' = [runs EXCEPT ![t].pc = AfterEnsure(t)]
       ELSE runs' = [runs EXCEPT ![t].pc = "launch"]
    /\ UNCHANGED <<session, main, stored_refs, outsideSession>>

\* server.rs:81-83 — ensure_browser takes the session lock; with a session
\* in the slot it returns at once and the guard drops.
ensure_browser(t) ==
    /\ Alive
    /\ runs[t].pc = "ensure_browser"
    /\ session.lock = 0
    /\ IF session.slot = "open"
       THEN /\ runs' = [runs EXCEPT ![t].pc = AfterEnsure(t)]
            /\ UNCHANGED session
       ELSE /\ runs' = [runs EXCEPT ![t].pc = "launch"]
            /\ session' = [session EXCEPT !.lock = t]
    /\ UNCHANGED <<main, stored_refs, outsideSession>>

\* server.rs:84-88 — BrowserSession::launch under the lock; it may fail.
Launch(t) ==
    /\ Alive
    /\ runs[t].pc = "launch"
    /\ \E ok \in BOOLEAN :
          IF ok
          THEN /\ session' = [session EXCEPT !.slot = "open", !.lock = 0,
                                             !.launched = @ + 1]
               /\ runs' = [runs EXCEPT ![t].pc = AfterEnsure(t)]
          ELSE /\ session' = [session EXCEPT !.lock = 0]
               /\ runs' = [runs EXCEPT ![t].pc = "failed"]
    /\ UNCHANGED <<main, stored_refs, outsideSession>>

\* server.rs:98-105 — with_page locks again, unwraps the slot, takes the
\* active page; the guard drops before f(page) runs.
with_page(t) ==
    /\ Alive
    /\ runs[t].pc = "active_page"
    /\ session.lock = 0
    /\ runs' = [runs EXCEPT ![t].pc = IF session.slot = "open" THEN "script"
                                      ELSE "panicked"]
    /\ UNCHANGED <<main, session, stored_refs, outsideSession>>

\* script.rs:99-121 — the script, on its blocking thread, calls a page
\* capability.
Capability(t) ==
    /\ Alive
    /\ runs[t].pc = "script"
    /\ runs[t].caps < MaxCaps
    /\ runs' = [runs EXCEPT ![t].caps = @ + 1]
    /\ UNCHANGED <<main, session, stored_refs, outsideSession>>

\* script.rs:121 — execute_in_boa has returned.
ScriptEnds(t) ==
    /\ Alive
    /\ runs[t].pc = "script"
    /\ runs' = [runs EXCEPT ![t].pc = "auto_snapshot"]
    /\ UNCHANGED <<main, session, stored_refs, outsideSession>>

\* server.rs:607-619 — the auto snapshot stores its table; the call returns.
RunScriptReturns(t) ==
    /\ Alive
    /\ runs[t].pc = "auto_snapshot"
    /\ stored_refs' = DocTable(1)
    /\ runs' = [runs EXCEPT ![t].pc = "returned"]
    /\ UNCHANGED <<main, session, outsideSession>>

\* server.rs:512-517 — the service accepts a new_tab request;
\* clear_snapshot_refs comes first.
NewTabCalled(t) ==
    /\ main.pc = "serving"
    /\ runs[t].pc = "idle"
    /\ stored_refs' = <<>>
    /\ runs' = [runs EXCEPT ![t].tool = "new_tab", ![t].pc = "ensure_browser"]
    /\ UNCHANGED <<main, session, outsideSession>>

\* server.rs:518-519 — new_tab locks the session and unwraps the slot; the
\* guard lives to the end of the function.
NewTabLocks(t) ==
    /\ Alive
    /\ runs[t].pc = "session"
    /\ session.lock = 0
    /\ IF session.slot = "open"
       THEN /\ session' = [session EXCEPT !.lock = t]
            /\ runs' = [runs EXCEPT ![t].pc = "new_page"]
       ELSE /\ runs' = [runs EXCEPT ![t].pc = "panicked"]
            /\ UNCHANGED session
    /\ UNCHANGED <<main, stored_refs, outsideSession>>

\* server.rs:520-523, session.rs:84-94 — browser.new_page(url).await ends,
\* well or not; the function returns and the guard drops.
NewPageEnds(t) ==
    /\ Alive
    /\ runs[t].pc = "new_page"
    /\ session' = [session EXCEPT !.lock = 0]
    /\ \E ok \in BOOLEAN :
          runs' = [runs EXCEPT ![t].pc = IF ok THEN "returned" ELSE "failed"]
    /\ UNCHANGED <<main, stored_refs, outsideSession>>

\* main.rs:38-39 — service.waiting() completes first; `result?` leaves main
\* when the result is an Err.
WaitingEnds ==
    /\ main.pc = "serving"
    /\ \E res \in {"Ok", "Err"} :
          main' = [main EXCEPT !.result = res,
                               !.pc = IF res = "Err" THEN "returned"
                                      ELSE "shutdown"]
    /\ UNCHANGED <<session, runs, stored_refs, outsideSession>>

\* main.rs:40-42 — the interrupt arrives first.
CtrlC ==
    /\ main.pc = "serving"
    /\ main' = [main EXCEPT !.result = "interrupt", !.pc = "shutdown"]
    /\ UNCHANGED <<session, runs, stored_refs, outsideSession>>

\* server.rs:67-70 — shutdown takes the session out of the slot.
ShutdownTake ==
    /\ main.pc = "shutdown"
    /\ session.lock = 0
    /\ main' = [main EXCEPT !.pc = "close", !.took = TRUE]
    /\ session' = [session EXCEPT !.slot = "none",
                                  !.closed = IF session.slot = "open"
                                             THEN @ + 1 ELSE @]
    /\ UNCHANGED <<runs, stored_refs, outsideSession>>

\* server.rs:71-75 — close() on what was taken; a failure is only logged.
ShutdownClose ==
    /\ main.pc = "close"
    /\ main' = [main EXCEPT !.pc = "clear", !.closed = TRUE]
    /\ UNCHANGED <<session, runs, stored_refs, outsideSession>>

\* server.rs:76, main.rs:45-48 — clear_snapshot_refs, then main returns.
ShutdownClear ==
    /\ main.pc = "clear"
    /\ stored_refs' = <<>>
    /\ main' = [main EXCEPT !.pc = "returned", !.cleared = TRUE]
    /\ UNCHANGED <<session, runs, outsideSession>>

NextSession ==
    \/ \E t \in RunIds : RunScriptCalled(t)
    \/ \E t \in RunIds : ensure_browser(t)
    \/ \E t \in RunIds : Launch(t)
    \/ \E t \in RunIds : with_page(t)
    \/ \E t \in RunIds : Capability(t)
    \/ \E t \in RunIds : ScriptEnds(t)
    \/ \E t \in RunIds : RunScriptReturns(t)
    \/ \E t \in RunIds : NewTabCalled(t)
    \/ \E t \in RunIds : NewTabLocks(t)
    \/ \E t \in RunIds : NewPageEnds(t)
    \/ WaitingEnds
    \/ CtrlC
    \/ ShutdownTake
    \/ ShutdownClose
    \/ ShutdownClear

SpecSession == InitSession /\ [][NextSession]_vars

\* C21: whichever outcome of the race ends the wait, main returns only after
\* shutdown has taken the session, closed it and cleared the ReferenceTable.
C21_ShutdownBeforeReturn ==
    main.pc = "returned" =>
        /\ main.took /\ main.closed /\ main.cleared
        /\ stored_refs = <<>>

\* C22: two run_script calls on the active page are never both inside their
\* scripts with capability calls made: the later one makes no capability
\* call until the earlier one has finished.
C22_ScriptsSerialized ==
    ~(\A t \in RunIds : runs[t].pc = "script" /\ runs[t].caps >= 1)


(***************************************************************************)
(* tools/snapshot.rs: the script snapshot_with_refs evaluates in the page. *)
(* A page is the scope root and its descendants in document order, each    *)
(* with its depth below the root; an element is its tag, its type, role    *)
(* and href attributes and whether its own computed style is display:none  *)
(* or visibility:hidden.  A line is its parts: the role, then the ref.     *)
(* Names, values and flags are left out of the lines; buildSelector is the *)
(* element's position in the page.                                         *)
(***************************************************************************)
SnapshotLimit == 200
MaxNodes == 3

INTERACTIVE_TAGS == {"a", "button", "input", "select", "textarea", "details", "summary"}
INTERACTIVE_ROLES == {"button", "link", "textbox", "checkbox", "radio", "combobox", "tab",
                      "menuitem", "switch", "listbox", "option", "slider", "spinbutton"}

Tag(tag, type, role, href) == [tag |-> tag, type |-> type, role |-> role, href |-> href]
Button == Tag("button", "", "", FALSE)
Anchor == Tag("a", "", "", FALSE)
Heading == Tag("h1", "", "", FALSE)
Div == Tag("div", "", "", FALSE)
DivButton == Tag("div", "", "button", FALSE)
ElementKinds == {Button, Anchor, Heading, Div, DivButton}

Node(kind, hidden, depth) == [kind |-> kind, hidden |-> hidden, depth |-> depth]

\* descendants in document order: the first is a child of the root, each
\* next one is at most one level below the one before it
Shaped(nodes) ==
    /\ nodes # <<>> => nodes[1].depth = 1
    /\ \A i \in 2..Len(nodes) : nodes[i].depth <= nodes[i - 1].depth + 1

SmallPages ==
    {[matched |-> TRUE, root |-> Node(k, h, 0), nodes |-> ns] :
        k \in {Div, Button}, h \in BOOLEAN,
        ns \in {q \in UNION {[1..n -> {Node(e, g, d) : e \in ElementKinds, g \in BOOLEAN,
                                                     d \in 1..2}] : n \in 0..MaxNodes} :
                   Shaped(q)}}

\* pages around the limit: the root and n displayed buttons below it
LargePages ==
    {[matched |-> TRUE, root |-> Node(k, h, 0),
      nodes |-> [i \in 1..n |-> Node(Button, FALSE, 1)]] :
        k \in {Div, Button}, h \in BOOLEAN,
        n \in (SnapshotLimit - 1)..(SnapshotLimit + 2)}

NoRoot == [matched |-> FALSE, root |-> Node(Div, FALSE, 0), nodes |-> <<>>]

\* element 0 is the root
At(page, i) == IF i = 0 THEN page.root ELSE page.nodes[i]

isVisible(node) == ~node.hidden

\* null is ""
getAriaRole(node) ==
    LET k == node.kind
    IN  IF k.role # "" THEN k.role
        ELSE CASE k.tag = "a" -> IF k.href THEN "link" ELSE ""
               [] k.tag = "button" -> "button"
               [] k.tag = "input" ->
                    (CASE k.type \in {"submit", "reset", "button"} -> "button"
                       [] k.type = "checkbox" -> "checkbox"
                       [] k.type = "radio" -> "radio"
                       [] k.type = "number" -> "spinbutton"
                       [] k.type = "range" -> "slider"
                       [] k.type = "file" -> "button"
                       [] k.type = "hidden" -> ""
                       [] OTHER -> "textbox")
               [] k.tag = "textarea" -> "textbox"
               [] k.tag = "select" -> "combobox"
               [] k.tag \in {"h1", "h2", "h3", "h4", "h5", "h6"} -> "heading"
               [] k.tag = "nav" -> "navigation"
               [] k.tag = "main" -> "main"
               [] k.tag = "details" -> "group"
               [] k.tag = "summary" -> "button"
               [] OTHER -> ""

isInteractive(node) ==
    LET k == node.kind
    IN  IF k.tag = "input" /\ k.type = "hidden" THEN FALSE
        ELSE IF k.tag \in INTERACTIVE_TAGS THEN TRUE
        ELSE k.role # "" /\ k.role \in INTERACTIVE_ROLES

isRelevant(node) ==
    IF node.kind.tag = "label" THEN FALSE ELSE getAriaRole(node) # ""

\* `e${idx}`
RECURSIVE decimal(_)
decimal(n) ==
    LET d == <<"0", "1", "2", "3", "4", "5", "6", "7", "8", "9">>[(n % 10) + 1]
    IN  IF n < 10 THEN <<d>> ELSE decimal(n \div 10) \o <<d>>

refId(idx) == <<"e">> \o decimal(idx)

MoreElements == <<"... and more elements (showing first 200)">>
NoElementsFound == <<"No elements found (selector not matched)">>
NoInteractiveElements == <<"No interactive elements found">>

\* mutant: idx is not advanced after a token is issued
processNode_same_idx(w, i) ==
    LET node == At(w.page, i)
        role == getAriaRole(node)
    IN  IF w.totalElements >= SnapshotLimit THEN [w EXCEPT !.more = FALSE]
        ELSE IF role = "" THEN [w EXCEPT !.more = TRUE]
        ELSE IF isInteractive(node)
        THEN [w EXCEPT !.more = TRUE,
                       !.refs = (refId(w.idx) :> i) @@ w.refs,
                       !.lines = Append(@, <<role, " ">> \o BracketRefEq
                                            \o refId(w.idx) \o CloseBracket),
                       !.totalElements = @ + 1]
        ELSE [w EXCEPT !.more = TRUE,
                       !.lines = Append(@, <<role>>),
                       !.totalElements = @ + 1]

\* processNode on element i with the script's locals in w; `more` is what it
\* returns
processNode(w, i) ==
    LET node == At(w.page, i)
        role == getAriaRole(node)
    IN  IF w.totalElements >= SnapshotLimit THEN [w EXCEPT !.more = FALSE]
        ELSE IF role = "" THEN [w EXCEPT !.more = TRUE]
        ELSE IF isInteractive(node)
        THEN [w EXCEPT !.more = TRUE,
                       !.refs = (refId(w.idx) :> i) @@ w.refs,
                       !.lines = Append(@, <<role, " ">> \o BracketRefEq
                                            \o refId(w.idx) \o CloseBracket),
                       !.idx = @ + 1,
                       !.totalElements = @ + 1]
        ELSE [w EXCEPT !.more = TRUE,
                       !.lines = Append(@, <<role>>),
                       !.totalElements = @ + 1]

\* the ancestors of descendant i strictly below the root
Ancestors(page, i) ==
    {j \in 1..(i - 1) :
        /\ page.nodes[j].depth < page.nodes[i].depth
        /\ \A k \in (j + 1)..i : page.nodes[k].depth > page.nodes[j].depth}

\* acceptNode as the walker applies it to descendant i: FILTER_REJECT leaves
\* out the element and its subtree, FILTER_SKIP the element alone
acceptNode(page, i) ==
    /\ isVisible(page.nodes[i])
    /\ isRelevant(page.nodes[i])
    /\ \A j \in Ancestors(page, i) : isVisible(page.nodes[j])

\* TreeWalker.nextNode: the first accepted element after i - 1; 0 is null
RECURSIVE nextNode(_, _)
nextNode(page, i) ==
    IF i > Len(page.nodes) THEN 0
    ELSE IF acceptNode(page, i) THEN i
    ELSE nextNode(page, i + 1)

SnapshotOutput(text, table) == [kind |-> "Ok", text |-> text, refs |-> table]

InitSnapshot ==
    /\ walk \in {[page |-> p, pc |-> "querySelector", cur |-> 0, lines |-> <<>>,
                  refs |-> <<>>, idx |-> 0, totalElements |-> 0, more |-> TRUE,
                  out |-> [kind |-> "pending", text |-> <<>>, refs |-> <<>>]] :
                    p \in SmallPages \cup LargePages \cup {NoRoot}}
    /\ InitOutsideSnap

\* snapshot.rs:32-39 — the scope selector matched nothing.
RootMissing ==
    /\ walk.pc = "querySelector"
    /\ ~walk.page.matched
    /\ walk' = [walk EXCEPT !.pc = "done",
                            !.out = SnapshotOutput(<<NoElementsFound>>, <<>>)]
    /\ UNCHANGED outsideSnap

\* snapshot.rs:339-341 — the root itself.
ProcessRoot ==
    /\ walk.pc = "querySelector"
    /\ walk.page.matched
    /\ walk' = [(IF isVisible(walk.page.root) /\ isRelevant(walk.page.root)
                 THEN processNode(walk, 0) ELSE walk) EXCEPT !.pc = "walker"]
    /\ UNCHANGED outsideSnap

\* snapshot.rs:343-348 — one turn of the while loop.
WalkerNext ==
    /\ walk.pc = "walker"
    /\ LET n == nextNode(walk.page, walk.cur + 1)
           w == processNode(walk, n)
       IN  IF n = 0 THEN walk' = [walk EXCEPT !.pc = "return"]
           ELSE IF ~w.more
           THEN walk' = [w EXCEPT !.cur = n, !.pc = "return",
                                  !.lines = Append(@, MoreElements)]
           ELSE walk' = [w EXCEPT !.cur = n]
    /\ UNCHANGED outsideSnap

\* snapshot.rs:350-379 — the payload, and the SnapshotOutput built from it.
SnapshotReturns ==
    /\ walk.pc = "return"
    /\ walk' = [walk EXCEPT !.pc = "done",
                            !.out = IF Len(walk.lines) = 0
                                    THEN SnapshotOutput(<<NoInteractiveElements>>, <<>>)
                                    ELSE SnapshotOutput(walk.lines, walk.refs)]
    /\ UNCHANGED outsideSnap

NextSnapshot ==
    \/ RootMissing
    \/ ProcessRoot
    \/ WalkerNext
    \/ SnapshotReturns

SpecSnapshot == InitSnapshot /\ [][NextSnapshot]_vars


\* The snapshot rules as the specification words them, over the elements of
\* the model's pages: which have a role, which are interactive, and which
\* are displayed (no element from the scope root down to it is hidden).
HasRole(node) == node.kind \in {Button, Heading, DivButton}
Interactive(node) == node.kind \in {Button, Anchor, DivButton}
Displayed(page, i) ==
    /\ ~page.root.hidden
    /\ i # 0 => /\ ~page.nodes[i].hidden
                /\ \A j \in Ancestors(page, i) : ~page.nodes[j].hidden
VisibleRelevant(page) ==
    {i \in 0..Len(page.nodes) : HasRole(At(page, i)) /\ Displayed(page, i)}

\* C23: a snapshot whose selector matches nothing, or whose scope holds no
\* relevant visible element, returns one of the two messages as its text
\* with an empty table, and does not fail.
C23_EmptySnapshotMessage ==
    (/\ walk.pc = "done"
     /\ \/ ~walk.page.matched
        \/ VisibleRelevant(walk.page) = {})
    => /\ walk.out.kind = "Ok"
       /\ walk.out.text \in {<<NoElementsFound>>, <<NoInteractiveElements>>}
       /\ walk.out.refs = <<>>

\* the tokens line ends in, as `[ref=eN]` (none or one)
TrailingTokens(line) ==
    {t \in {SubSeq(line, k, Len(line) - 1) : k \in 1..(Len(line) - 1)} :
        IsRefToken(t) /\ ends_with(line, BracketRefEq \o t \o CloseBracket)}
RefLines(text) == {k \in 1..Len(text) : TrailingTokens(text[k]) # {}}

\* the number a token's digits write, and whether they write it the one
\* canonical way (no leading zero)
RECURSIVE NumberOf(_)
NumberOf(ds) ==
    IF ds = <<>> THEN 0
    ELSE 10 * NumberOf(SubSeq(ds, 1, Len(ds) - 1))
         + (CHOOSE v \in 0..9 :
              <<"0", "1", "2", "3", "4", "5", "6", "7", "8", "9">>[v + 1] = ds[Len(ds)])
Canonical(t) == Len(t) = 2 \/ t[2] # "0"

C25_LimitAndMarker ==
    (walk.pc = "done" /\ walk.page.matched) =>
        LET markers == {k \in 1..Len(walk.lines) : walk.lines[k] = MoreElements}
            elements == Len(walk.lines) - Cardinality(markers)
        IN  /\ elements <= SnapshotLimit
            /\ IF Cardinality(VisibleRelevant(walk.page)) > SnapshotLimit
               THEN /\ markers = {Len(walk.lines)}
                    /\ elements = SnapshotLimit
               ELSE markers = {}


(***************************************************************************)
(* tools/snapshot.rs: getAccessibleName.  An element is given by the texts *)
(* the rules read: the joined text of the elements aria-labelledby names,  *)
(* its attributes, the text of its label[for] and of its wrapping label,   *)
(* its own textContent and its value; "" is an absent attribute.  The      *)
(* texts hold no inner runs of whitespace.                                 *)
(***************************************************************************)
NameLimit == 60

Ellipsis == <<".", ".", ".">>
ChooseFile == <<"C", "h", "o", "o", "s", "e", " ", "f", "i", "l", "e">>

\* text.length > 60 ? text.slice(0, 60) + '...' : text
slice60(text) ==
    IF Len(text) > NameLimit THEN SubSeq(text, 1, NameLimit) \o Ellipsis ELSE text

\* name.replace(/[_\-\[\]]/g, ' ')
spaced(name) ==
    [i \in 1..Len(name) |-> IF name[i] \in {"_", "-", "[", "]"} THEN " " ELSE name[i]]

getAccessibleName(node) ==
    LET form == node.tag \in {"input", "select", "textarea"}
    IN  IF trim(node.labelledby) # <<>> THEN slice60(trim(node.labelledby))
        ELSE IF node.aria_label # <<>> THEN trim(node.aria_label)
        ELSE IF node.tag = "input" /\ node.type = "file" THEN ChooseFile
        ELSE IF form /\ trim(node.label_for) # <<>> THEN slice60(trim(node.label_for))
        ELSE IF form /\ trim(node.parent_label) # <<>>
             THEN slice60(trim(node.parent_label))
        ELSE IF ~form /\ node.tag # "img" /\ trim(node.textContent) # <<>>
             THEN slice60(trim(node.textContent))
        ELSE IF node.tag = "img" /\ node.alt # <<>> THEN trim(node.alt)
        ELSE IF node.placeholder # <<>> THEN trim(node.placeholder)
        ELSE IF node.value # <<>> /\ node.tag \in {"input", "textarea"} THEN node.value
        ELSE IF node.alt # <<>> THEN trim(node.alt)
        ELSE IF node.title # <<>> THEN trim(node.title)
        ELSE IF form /\ node.name # <<>> THEN trim(spaced(node.name))
        ELSE <<>>

NameSources == {"labelledby", "aria_label", "label_for", "parent_label", "textContent",
                "alt", "placeholder", "value", "title", "name"}
ShortText == <<"a", "_", "b">>
FullText == [i \in 1..NameLimit |-> "x"]
LongText == [i \in 1..(NameLimit + 1) |-> "x"]
SourceTexts == {ShortText, FullText, LongText}

\* elements with at most two of the sources present
NamedElements ==
    {[f \in NameSources \cup {"tag", "type"} |->
        CASE f = "tag" -> k[1]
          [] f = "type" -> k[2]
          [] f = a -> ta
          [] f = b -> tb
          [] OTHER -> <<>>] :
        k \in {<<"button", "">>, <<"input", "">>, <<"input", "file">>, <<"img", "">>},
        a \in NameSources, b \in NameSources,
        ta \in SourceTexts \cup {<<>>}, tb \in SourceTexts \cup {<<>>}}

InitName ==
    /\ args \in NamedElements
    /\ out = Pending
    /\ InitOutsideCall

Name ==
    /\ out = Pending
    /\ out' = Ok(getAccessibleName(args))
    /\ UNCHANGED <<args, outsideCall>>

NextName == Name

SpecName == InitName /\ [][NextName]_vars

\* C26: whichever rule produced it, an emitted accessible name is at most 60
\* characters, followed by the ellipsis marker when its source was longer.
C26_NamesTruncated ==
    out.kind = "Ok" =>
        \/ Len(out.val) <= NameLimit
        \/ /\ Len(out.val) = NameLimit + Len(Ellipsis)
           /\ ends_with(out.val, Ellipsis)


(***************************************************************************)
(* tools/network.rs: start_listening.  Every call subscribes two event     *)
(* streams of the page and spawns a task that drains them; the browser     *)
(* delivers each event to every subscribed stream.  select! takes either   *)
(* stream that has an event ready.                                         *)
(***************************************************************************)
MaxListeners == 2
MaxEvents == 2
RequestIds == {1, 2}

UrlOf(request_id) == IF request_id = 1 THEN UrlApi ELSE UrlImg

\* AtomicU32::fetch_add, fetch_sub: wrapping.  The counter is kept as the
\* signed reading of its 32 bits, so -k stands for the u32 value 2^32 - k.
fetch_add(counter, n) == counter + n
fetch_sub(counter, n) == counter - n

Event(kind, request_id) == [kind |-> kind, id |-> request_id]

InitListener ==
    /\ listeners = <<>>
    /\ pending_count = 0
    /\ emitted = <<>>
    /\ net_entries = <<>>
    /\ net_added = <<>>
    /\ net_enabled = FALSE
    /\ net_patterns = <<>>
    /\ InitOutsideListener

\* server.rs:480-494, script.rs:1009-1016 — network_enable, then
\* start_listening: a new pair of streams and a new task, on every call.
StartListening ==
    /\ Len(listeners) < MaxListeners
    /\ \E patterns \in {None, Some(<< <<"a", "p">> >>)} : NetworkLog_enable(patterns)
    /\ listeners' = Append(listeners, [requests |-> <<>>, responses |-> <<>>,
                                       pending_map |-> {}, seen |-> <<>>])
    /\ UNCHANGED <<pending_count, emitted, net_entries, net_added, outsideListener>>

\* The page sends a request (a redirect announces the same id again): the
\* event goes to every requests stream.
RequestWillBeSent ==
    /\ listeners # <<>>
    /\ Len(emitted) < MaxEvents
    /\ \E id \in RequestIds :
          /\ emitted' = Append(emitted, Event("request", id))
          /\ listeners' = [l \in DOMAIN listeners |->
                              [listeners[l] EXCEPT !.requests = Append(@, id)]]
    /\ UNCHANGED <<pending_count, net_entries, net_added, net_enabled, net_patterns,
                   outsideListener>>

\* The page receives a response, for a request announced before or not.
ResponseReceived ==
    /\ listeners # <<>>
    /\ Len(emitted) < MaxEvents
    /\ \E id \in RequestIds :
          /\ emitted' = Append(emitted, Event("response", id))
          /\ listeners' = [l \in DOMAIN listeners |->
                              [listeners[l] EXCEPT !.responses = Append(@, id)]]
    /\ UNCHANGED <<pending_count, net_entries, net_added, net_enabled, net_patterns,
                   outsideListener>>

\* network.rs:192-195 — Some(req) = requests.next()
OnRequest(l) ==
    /\ listeners[l].requests # <<>>
    /\ LET id == Head(listeners[l].requests)
       IN  /\ pending_count' = fetch_add(pending_count, 1)
           /\ listeners' = [listeners EXCEPT ![l].requests = Tail(@),
                                             ![l].pending_map = @ \cup {id},
                                             ![l].seen = Append(@, Event("request", id))]
    /\ UNCHANGED <<emitted, net_entries, net_added, net_enabled, net_patterns,
                   outsideListener>>

\* mutant: every response decrements the counter
OnResponse_always_sub(l) ==
    /\ listeners[l].responses # <<>>
    /\ LET id == Head(listeners[l].responses)
       IN  /\ pending_count' = fetch_sub(pending_count, 1)
           /\ listeners' = [listeners EXCEPT ![l].responses = Tail(@),
                                             ![l].pending_map = @ \ {id},
                                             ![l].seen = Append(@, Event("response", id))]
           /\ NetworkLog_add(NetworkEntry(Len(net_added) + 1, UrlOf(id)))
    /\ UNCHANGED <<emitted, net_enabled, net_patterns, outsideListener>>

\* network.rs:196-213 — Some(resp) = responses.next()
OnResponse(l) ==
    /\ listeners[l].responses # <<>>
    /\ LET id == Head(listeners[l].responses)
       IN  /\ pending_count' = IF id \in listeners[l].pending_map
                               THEN fetch_sub(pending_count, 1)
                               ELSE pending_count
           /\ listeners' = [listeners EXCEPT ![l].responses = Tail(@),
                                             ![l].pending_map = @ \ {id},
                                             ![l].seen = Append(@, Event("response", id))]
           /\ NetworkLog_add(NetworkEntry(Len(net_added) + 1, UrlOf(id)))
    /\ UNCHANGED <<emitted, net_enabled, net_patterns, outsideListener>>

NextListener ==
    \/ StartListening
    \/ RequestWillBeSent
    \/ ResponseReceived
    \/ \E l \in DOMAIN listeners : OnRequest(l)
    \/ \E l \in DOMAIN listeners : OnResponse(l)

SpecListener == InitListener /\ [][NextListener]_vars

\* the request ids whose latest event in a listener's history is a request
Unanswered(seen) ==
    {id \in RequestIds :
        \E i \in 1..Len(seen) :
           /\ seen[i] = Event("request", id)
           /\ \A j \in (i + 1)..Len(seen) : seen[j].id # id}

\* C27: with one listener, the pending counter always equals the number of
\* request ids the listener has seen requested and not yet answered, also
\* when an id was announced more than once.
C27_CounterIsUnanswered ==
    Len(listeners) = 1 =>
        pending_count = Cardinality(Unanswered(listeners[1].seen))

Emitted(kind) == {i \in 1..Len(emitted) : emitted[i].kind = kind}

\* C28: however often capture is enabled, one listener feeds the log: each
\* request is counted once and each response makes one log entry.
C28_OneListener ==
    /\ Len(listeners) <= 1
    /\ pending_count <= Cardinality(Emitted("request"))
    /\ Len(net_added) <= Cardinality(Emitted("response"))


(***************************************************************************)
(* The waiting calls again, with the scheduler running the task whenever   *)
(* it can take a step: a sleep ends, a sample is taken.                    *)
(***************************************************************************)
SpecWaitLive == SpecWait /\ WF_vars(NextWait)

\* the samples ending the history read 0 over a span of at least idle
Dwelt(samples, idle) ==
    \E i \in 1..Len(samples) :
       /\ \A j \in i..Len(samples) : samples[j].pending = 0
       /\ samples[Len(samples)].t - samples[i].t >= idle

\* C29: waitForNetworkIdle always returns; when it returns with the timeout
\* not yet elapsed, the pending counter read 0 at consecutive samples
\* spanning the idle dwell, and otherwise it returns within one poll
\* interval after the timeout.
C29_NetworkIdleTerminates ==
    /\ [](wait.op = "waitForNetworkIdle" /\ wait.pc = "returned" =>
            IF now - wait.start <= wait.timeout
            THEN Dwelt(wait.samples, wait.idle)
            ELSE now - wait.start <= wait.timeout + PollInterval)
    /\ <>(wait.op = "waitForNetworkIdle" => wait.pc = "returned")

\* An early return after a sample that restarted the dwell.
C29_Witness ==
    /\ wait.op = "waitForNetworkIdle"
    /\ wait.pc = "returned"
    /\ now - wait.start <= wait.timeout
    /\ \E i \in 1..Len(wait.samples) : wait.samples[i].pending # 0
    /\ wait.samples[1].pending = 0


(***************************************************************************)
(* The NetworkLog again: what one add call and one enable call change.     *)
(* args is the entry the latest NetworkLog.add was called with.            *)
(***************************************************************************)
\* url = a \o pattern \o b for some a and b
IsSubstring(pattern, url) ==
    \E k \in 1..(Len(url) - Len(pattern) + 1) :
       \A j \in 1..Len(pattern) : url[k + j - 1] = pattern[j]

Accepted(url) ==
    /\ net_enabled
    /\ \/ net_patterns = <<>>
       \/ \E i \in 1..Len(net_patterns) : IsSubstring(net_patterns[i], url)

\* C30: an add call stores its entry if and only if capture is enabled and
\* the filters are empty or one of them is a substring of the entry's URL;
\* otherwise the stored entries stay as they are; and an enable call, which
\* may change the filters, removes nothing already stored.
C30_AddStoresIffAccepted ==
    [][/\ (add_calls' = add_calls + 1 /\ console_added' = console_added) =>
             IF Accepted(args'.url)
             THEN /\ net_added' = Append(net_added, args')
                  /\ net_entries' # <<>>
                  /\ net_entries'[Len(net_entries')] = args'
             ELSE /\ net_entries' = net_entries
                  /\ net_added' = net_added
       /\ (net_patterns' # net_patterns \/ net_enabled' # net_enabled) =>
             net_entries' = net_entries]_vars

\* The latest add was turned down by the filters now in force, while the
\* log holds an entry stored earlier that those filters would turn down.
C30_Witness ==
    /\ args.id > 0
    /\ \A i \in 1..Len(net_added) : net_added[i] # args
    /\ net_enabled
    /\ ~Accepted(args.url)
    /\ \E i \in 1..Len(net_entries) :
          net_entries[i].id > 0 /\ ~Accepted(net_entries[i].url)


(***************************************************************************)
(* The session lock and the session slot under concurrent tool calls       *)
(* (specification SpecSession).                                            *)
(***************************************************************************)
\* positions at which a call awaits the browser
AwaitsBrowser(t) == runs[t].pc \in {"launch", "new_page"}

\* C31: no tool call holds the session lock while it awaits a browser or
\* page operation, so a call that needs only the active page handle never
\* waits for the lock behind new_tab's wait on the browser.
C31_NoLockAcrossAwait ==
    \A t \in RunIds :
        (session.lock = t /\ runs[t].tool = "new_tab") => ~AwaitsBrowser(t)

\* C37: while no shutdown has taken the session, at most one browser has
\* been launched however the first calls interleave, and a launch happens
\* only under the lock with the slot empty; no two sessions ever live at
\* once.
C37_OneBrowserLaunched ==
    /\ [](~main.took => session.launched <= 1)
    /\ [](session.launched - session.closed <= 1)
    /\ [][session.launched' # session.launched =>
             /\ session.lock # 0
             /\ session.slot = "none"
             /\ session'.slot = "open"]_vars

\* Two first calls met at ensure_browser: one launched, the other found the
\* session and went on.
C37_Witness ==
    /\ ~main.took
    /\ session.launched = 1
    /\ \A t \in RunIds : runs[t].pc \in {"script", "new_page", "auto_snapshot", "returned"}

\* C38: once its ensure_browser has succeeded, no call finds the slot empty
\* at its unwrap, also with shutdown running beside it.
C38_UnwrapNeverFails ==
    \A t \in RunIds : runs[t].pc # "panicked"


(***************************************************************************)
(* Removing a page that is not the active one (specification SpecPool).    *)
(***************************************************************************)
\* the page active_page() designates, 0 when the index is out of range
ActiveIdentity(ps, active) == IF active < Len(ps) THEN ps[active + 1] ELSE 0

\* C33: a step that removes one page other than the active one leaves
\* active_page() on the same page identity.
C33_RemoveKeepsActive ==
    [][(/\ Len(pages') = Len(pages) - 1
        /\ ActiveIdentity(pages, active_index) # 0
        /\ \E i \in 1..Len(pages') : pages'[i] = ActiveIdentity(pages, active_index))
       => ActiveIdentity(pages', active_index') = ActiveIdentity(pages, active_index)]_vars


(***************************************************************************)
(* The stored ReferenceTable under concurrent tool calls (specification    *)
(* SpecServer).                                                            *)
(***************************************************************************)
\* the task whose handler took the step
Acted(t) == tasks'[t].pc # tasks[t].pc

\* task t is in a call that was given a well-formed token absent from the
\* store
Recovering(t) == tasks[t].absent.some /\ tasks[t].pc \notin {"idle", "returned"}

\* C34: a click given a well-formed token the store does not hold never
\* reaches the page primitive; it returns an error naming that token, after
\* an auto_snapshot; on the way it writes the store only with the table of
\* the snapshot it has just taken, and not at all when that snapshot failed.
C34_AbsentTokenRecovers ==
    [][\A t \in TaskIds :
          (Recovering(t) /\ Acted(t)) =>
              /\ ~tasks'[t].invoked
              /\ tasks'[t].pc \in {"auto_store", "returned"}
              /\ stored_refs' # stored_refs =>
                     /\ tasks[t].pc = "auto_store"
                     /\ stored_refs' = tasks[t].snap.val
              /\ tasks'[t].pc = "returned" =>
                     /\ tasks'[t].ret = "Err"
                     /\ tasks'[t].named = tasks'[t].absent
                     /\ tasks'[t].auto \in {"ok", "failed"}
                     /\ IF tasks'[t].auto = "ok"
                        THEN /\ tasks[t].snap.some
                             /\ stored_refs' = tasks[t].snap.val
                        ELSE stored_refs' = stored_refs]_vars

\* A click on a token the store did not hold has returned after a fresh
\* snapshot that changed the store.
C34_Witness ==
    \E t \in TaskIds :
        /\ tasks[t].pc = "returned" /\ tasks[t].tool = "click"
        /\ tasks[t].absent = Some(E7)
        /\ tasks[t].auto = "ok"
        /\ stored_refs = DocTable(2)

\* C35: at the step in which a navigate call returns, with Ok or with an
\* error, the store's latest write is not a table taken before that call
\* began.
C35_NoOlderRefsAtReturn ==
    [][\A t \in TaskIds :
          (Acted(t) /\ tasks'[t].pc = "returned" /\ tasks'[t].tool = "navigate")
              => \A u \in TaskIds \ {t} : ~tasks'[u].wrote_old]_vars

\* C36: the stored table is empty or the whole table of one snapshot.
C36_StoreIsOneSnapshot ==
    \E d \in Doms : stored_refs = DocTable(d)

\* The store holds one document's table while a task holds another
\* document's table it is about to store.
C36_Witness ==
    /\ stored_refs = DocTable(2)
    /\ \E t \in TaskIds :
           /\ tasks[t].pc \in {"store", "auto_store"}
           /\ tasks[t].snap = Some(DocTable(1))


(***************************************************************************)
(* A click's selector on its way to the page: the Ref Resolver and the     *)
(* has-text rewrite, in the tool layer and in the script capability        *)
(* (specification SpecHasText).                                            *)
(***************************************************************************)
MaxHasPieces == 3
HasTextLeads == {<<>>, RefEq, BracketRefEq}
HasTextTokens == {<<>>, E0, E0 \o CloseBracket, <<"a">>}
HasTextSelectors ==
    {lead \o token \o concat(ps) :
        lead \in HasTextLeads, token \in HasTextTokens,
        ps \in UNION {[1..n -> SelectorPieces] : n \in 0..MaxHasPieces}}

\* server.rs:346 then interaction.rs:24-26 — click resolves the selector
\* against the stored table, and do_click rewrites what came back
tool_click(sel, selector_type, table) ==
    LET r == resolve_selector(sel, table)
    IN  IF r.kind = "Ok"
        THEN Ok(normalize_selector_type(r.val, selector_type))
        ELSE r

\* script.rs:549-553 — page.click resolves through ctx.resolve_ref, then
\* rewrites
make_click(sel, selector_type, srefs) ==
    LET r == resolve_ref(sel, srefs)
    IN  IF r.kind = "Ok"
        THEN Ok(normalize_selector_type(r.val, selector_type))
        ELSE r

InitHasText ==
    /\ args \in [layer : {"tool", "script"},
                 selector : HasTextSelectors,
                 selector_type : {"Css", "Text"},
                 refs : {None, Some(DocTable(1))}]
    /\ out = Pending
    /\ InitOutsideCall

ToolClick ==
    /\ out = Pending
    /\ args.layer = "tool"
    /\ out' = tool_click(args.selector, args.selector_type,
                         IF args.refs.some THEN args.refs.val ELSE <<>>)
    /\ UNCHANGED <<args, outsideCall>>

ScriptClick ==
    /\ out = Pending
    /\ args.layer = "script"
    /\ out' = make_click(args.selector, args.selector_type, args.refs)
    /\ UNCHANGED <<args, outsideCall>>

NextHasText == ToolClick \/ ScriptClick

SpecHasText == InitHasText /\ [][NextHasText]_vars

\* the first `:has-text(` of s is followed by a quoted, closed phrase
FirstIsQuoted(s) ==
    /\ HasTextAt(s) # {}
    /\ QuotedPhraseAt(s, CHOOSE i \in HasTextAt(s) : \A j \in HasTextAt(s) : i <= j)

\* C32: in both layers a Css selector whose has-text pattern is quoted is
\* rewritten to its phrase before the Ref Resolver sees it, so the call is
\* not answered with a stale-ref or invalid-format failure and the page gets
\* the Text phrase.
C32_HasTextBeforeResolver ==
    (/\ out # Pending
     /\ args.selector_type = "Css"
     /\ FirstIsQuoted(args.selector)) =>
        /\ out.kind = "Ok"
        /\ out.val.selector_type = "Text"


(***************************************************************************)
(* The pending-request counter never passes below zero (specification      *)
(* SpecListener).  pending_count is the counter read as a signed number: a *)
(* negative value stands for the wrapped unsigned one.                     *)
(***************************************************************************)
RECURSIVE InMaps(_)
\* the requests the first n listeners hold in their pending_map, in all
InMaps(n) ==
    IF n = 0 THEN 0 ELSE Cardinality(listeners[n].pending_map) + InMaps(n - 1)

\* C40: the counter never wraps below zero: it is never smaller than the
\* number of requests the listeners still hold, and a step lowers it only
\* by one and only when it is positive.
C40_CounterNeverWraps ==
    /\ [](pending_count >= InMaps(Len(listeners)))
    /\ [](pending_count >= 0)
    /\ [][pending_count' < pending_count =>
             pending_count > 0 /\ pending_count' = pending_count - 1]_vars

\* Two listeners share the counter; one has handled a response whose
\* request it never saw, another has answered a request it had counted.
C40_Witness ==
    /\ Len(listeners) = 2
    /\ \E l \in 1..2 :
           /\ listeners[l].seen # <<>>
           /\ listeners[l].seen[1].kind = "response"
    /\ \E l \in 1..2, i \in 1..2 :
           /\ i < Len(listeners[l].seen)
           /\ listeners[l].seen[i].kind = "request"
           /\ listeners[l].seen[i + 1] = Event("response", listeners[l].seen[i].id)


(***************************************************************************)
(* The mutexes: session (server.rs), the TabPool (browser/session.rs), the *)
(* stored ReferenceTable, ConsoleLog.entries and NetworkLog's enabled,     *)
(* patterns and entries.  All are tokio mutexes, which hand the lock to    *)
(* waiters in arrival order.  A task runs one code path, written as the    *)
(* sequence of its lock, unlock and await steps (specification SpecLocks). *)
(***************************************************************************)
LockTasks == {1, 2, 3}
Locks == {"session", "pool", "snapshot_refs", "console", "enabled", "patterns", "entries"}

Lock(l) == [op |-> "lock", lock |-> l]
Unlock(l) == [op |-> "unlock", lock |-> l]
Await == [op |-> "await", lock |-> "none"]

\* server.rs:92-109, session.rs:79-82 — with_page: the session guard, under
\* it the pool guard for active_page(), both dropped, then f(page).await;
\* server.rs:161-172 — auto_snapshot stores the refs afterwards
with_page_locks ==
    <<Lock("session"), Lock("pool"), Unlock("pool"), Unlock("session"), Await,
      Lock("snapshot_refs"), Unlock("snapshot_refs")>>

\* server.rs:594-614 — run_script: reads the store, runs the script through
\* with_page, then tests the store (the guard of the `if` condition is
\* dropped before the block) and sets it
run_script_locks ==
    <<Lock("snapshot_refs"), Unlock("snapshot_refs"),
      Lock("session"), Lock("pool"), Unlock("pool"), Unlock("session"), Await,
      Lock("snapshot_refs"), Unlock("snapshot_refs"),
      Lock("snapshot_refs"), Unlock("snapshot_refs")>>

\* server.rs:80-90, 512-523, session.rs:84-94 — new_tab: clears the store,
\* ensure_browser launches under the session guard, then the session guard
\* is held across browser.new_page().await and the pool's add_page
new_tab_locks ==
    <<Lock("snapshot_refs"), Unlock("snapshot_refs"),
      Lock("session"), Await, Unlock("session"),
      Lock("session"), Await, Lock("pool"), Unlock("pool"), Unlock("session")>>

\* mutant: close_tab takes the pool before the session
close_tab_locks_pool_first ==
    <<Lock("snapshot_refs"), Unlock("snapshot_refs"),
      Lock("pool"), Lock("session"), Await, Unlock("session"), Unlock("pool")>>

\* server.rs:527-539, page.rs:31-42 — close_tab: clears the store, then the
\* session guard and under it the pool guard, held across page.close().await
close_tab_locks ==
    <<Lock("snapshot_refs"), Unlock("snapshot_refs"),
      Lock("session"), Lock("pool"), Await, Unlock("pool"), Unlock("session")>>

\* server.rs:66-77 — shutdown: takes the session under its guard, closes the
\* browser with the guard dropped, clears the store
shutdown_locks ==
    <<Lock("session"), Unlock("session"), Await,
      Lock("snapshot_refs"), Unlock("snapshot_refs")>>

\* network.rs:48-55 — NetworkLog::enable: enabled, and under it patterns
enable_locks ==
    <<Lock("enabled"), Lock("patterns"), Unlock("patterns"), Unlock("enabled")>>

\* network.rs:57-77 — NetworkLog::add, called by the listener task: enabled
\* for the whole call; under it patterns, dropped, then entries
add_locks ==
    <<Await, Lock("enabled"), Lock("patterns"), Unlock("patterns"),
      Lock("entries"), Unlock("entries"), Unlock("enabled")>>

\* script.rs:964, 1041, javascript.rs:85, network.rs:85 — a script reads the
\* console log and then the network log
read_logs_locks ==
    <<Lock("console"), Unlock("console"), Await, Lock("entries"), Unlock("entries")>>

Programs ==
    <<with_page_locks, run_script_locks, new_tab_locks, close_tab_locks,
      shutdown_locks, enable_locks, add_locks, read_logs_locks>>

\* Every choice of code paths for the three tasks; the tasks being alike,
\* the paths are dealt in the order of the list.
InitLocks ==
    /\ lock_queue = [l \in Locks |-> <<>>]
    /\ \E i, j, k \in DOMAIN Programs :
          /\ i <= j /\ j <= k
          /\ lock_tasks = [t \in LockTasks |->
                              [prog |-> Programs[IF t = 1 THEN i ELSE IF t = 2 THEN j ELSE k],
                               at |-> 1, held |-> {}, waits |-> FALSE]]
    /\ InitOutsideLocks

Done(t) == lock_tasks[t].at > Len(lock_tasks[t].prog)
Op(t) == lock_tasks[t].prog[lock_tasks[t].at]

\* lock().await on a free mutex, or the task joins the waiters
Request(t) ==
    /\ ~Done(t) /\ Op(t).op = "lock" /\ ~lock_tasks[t].waits
    /\ LET l == Op(t).lock
       IN  IF lock_queue[l] = <<>>
           THEN /\ lock_queue' = [lock_queue EXCEPT ![l] = <<t>>]
                /\ lock_tasks' = [lock_tasks EXCEPT ![t].at = @ + 1,
                                                    ![t].held = @ \cup {l}]
           ELSE /\ lock_queue' = [lock_queue EXCEPT ![l] = Append(@, t)]
                /\ lock_tasks' = [lock_tasks EXCEPT ![t].waits = TRUE]
    /\ UNCHANGED outsideLocks

\* the mutex was handed to the first waiter: its lock().await returns
Obtain(t) ==
    /\ ~Done(t) /\ Op(t).op = "lock" /\ lock_tasks[t].waits
    /\ LET l == Op(t).lock
       IN  /\ Head(lock_queue[l]) = t
           /\ l \notin lock_tasks[t].held
           /\ lock_tasks' = [lock_tasks EXCEPT ![t].at = @ + 1,
                                               ![t].held = @ \cup {l},
                                               ![t].waits = FALSE]
    /\ UNCHANGED <<lock_queue, outsideLocks>>

\* the guard drops: the next waiter, if any, is first in the queue
Release(t) ==
    /\ ~Done(t) /\ Op(t).op = "unlock"
    /\ LET l == Op(t).lock
       IN  /\ lock_queue' = [lock_queue EXCEPT ![l] = Tail(@)]
           /\ lock_tasks' = [lock_tasks EXCEPT ![t].at = @ + 1,
                                               ![t].held = @ \ {l}]
    /\ UNCHANGED outsideLocks

\* an awaited browser or page operation completes
AwaitEnds(t) ==
    /\ ~Done(t) /\ Op(t).op = "await"
    /\ lock_tasks' = [lock_tasks EXCEPT ![t].at = @ + 1]
    /\ UNCHANGED <<lock_queue, outsideLocks>>

LockStep(t) == Request(t) \/ Obtain(t) \/ Release(t) \/ AwaitEnds(t)

NextLocks == \E t \in LockTasks : LockStep(t)

\* the runtime polls every task that can run; awaited operations end
SpecLocks ==
    /\ InitLocks
    /\ [][NextLocks]_vars
    /\ \A t \in LockTasks : WF_vars(LockStep(t))

\* one order in which nested locks are taken
LockRank(l) ==
    CASE l = "session" -> 1
      [] l = "pool" -> 2
      [] l = "snapshot_refs" -> 3
      [] l = "console" -> 4
      [] l = "enabled" -> 5
      [] l = "patterns" -> 6
      [] OTHER -> 7

\* C39: no interleaving of tool calls, script capability calls and the
\* listener deadlocks on the mutexes: a task asks for a lock only while it
\* holds none of the same or a later rank, and every task runs to its end,
\* so every lock it waited for on the way was obtained.
C39_NoDeadlock ==
    /\ [](\A t \in LockTasks :
             (~Done(t) /\ Op(t).op = "lock") =>
                 \A h \in lock_tasks[t].held : LockRank(h) < LockRank(Op(t).lock))
    /\ <>(\A t \in LockTasks : Done(t) /\ ~lock_tasks[t].waits)

\* Two tasks wait in line for the session lock while its holder, which also
\* holds the pool lock, awaits the browser.
C39_Witness ==
    /\ Len(lock_queue["session"]) = 3
    /\ \E t \in LockTasks :
           /\ lock_tasks[t].held = {"session", "pool"}
           /\ ~Done(t) /\ Op(t).op = "await"

====
